---- MODULE Spec2Model ----
(***************************************************************************)
(* A model of scraproxy: the FastAPI service of src/app.py (endpoints      *)
(* /browse, /screenshot, /video over a diskcache result cache) and the     *)
(* synchronous Flask variant of src/main.py (/browse behind the in-memory  *)
(* cache_response wrapper).                                                *)
(*                                                                         *)
(* Python values are records [t, v]: t is the Python type ("dict", "str", *)
(* "none"), v a string that stands for the content.  The browser engine    *)
(* (playwright) is the environment: every call into it has an outcome that *)
(* the actions draw from a small set.                                      *)
(***************************************************************************)
EXTENDS Integers, Sequences, FiniteSets, TLC

(***************************************************************************)
(* Bounds of the model.                                                    *)
(***************************************************************************)
MaxRequests == 2      \* HTTP requests served in one run of the service
MaxServiceEvents == 1 \* page events of one session in a run of the service
MaxEvents == 2        \* page events of the session in a run of one session
MaxLogLines == 1      \* console and pageerror events in a run of the listeners
TicksPerTtl == 2      \* clock granularity: the clock advances by Ttl / TicksPerTtl
MaxTicks == 2         \* clock ticks in one run

(***************************************************************************)
(* Program constants.                                                      *)
(***************************************************************************)
CACHE_EXPIRATION_SECONDS == 3600   \* default ttl of the diskcache entries
CACHE_EXPIRATION == 300            \* ttl of the in-memory cache of main.py
CACHE_MAX_SIZE == 100              \* size cap of the in-memory cache of main.py

Engines == {"chromium", "firefox", "webkit"}

\* Attributes of the playwright object other than the three engines:
\* getattr(p, name, None) finds them, and none of them has a launch method.
OtherPlaywrightAttrs == {"devices", "selectors", "request"}

(***************************************************************************)
(* Python values.                                                          *)
(***************************************************************************)
PyNone == [t |-> "none", v |-> ""]
PyStr(s) == [t |-> "str", v |-> s]
PyDict(s) == [t |-> "dict", v |-> s]

\* f"{x}" of an optional string: None formats as the text None.
Format(x) == IF x.t = "none" THEN "None" ELSE x.v

\* Python truthiness of an optional string (None and "" are falsy).
Truthy(x) == x.t # "none" /\ x.v # ""

\* sub in s, for Python strings.
Contains(s, sub) ==
    \E i \in 1..(Len(s) - Len(sub) + 1) : SubSeq(s, i, i + Len(sub) - 1) = sub

UpperCase == "ABCDEFGHIJKLMNOPQRSTUVWXYZ"
LowerCase == "abcdefghijklmnopqrstuvwxyz"

\* The character of `into` at the place c has in `from`, or c.
MapChar(c, from, into) ==
    IF \E i \in 1..Len(from) : SubSeq(from, i, i) = c
    THEN LET i == CHOOSE j \in 1..Len(from) : SubSeq(from, j, j) = c
         IN SubSeq(into, i, i)
    ELSE c

RECURSIVE MapString(_, _, _)
MapString(str, from, into) ==
    IF str = "" THEN ""
    ELSE MapChar(SubSeq(str, 1, 1), from, into)
             \o MapString(SubSeq(str, 2, Len(str)), from, into)

\* str.upper() and str.lower()
Upper(str) == MapString(str, LowerCase, UpperCase)
Lower(str) == MapString(str, UpperCase, LowerCase)

(***************************************************************************)
(* Authentication.  app.py: the dependency optional_auth over              *)
(* HTTPBearer(auto_error=False); main.py: the before_request hook          *)
(* check_api_key.                                                          *)
(***************************************************************************)
\* str.startswith
StartsWith(str, prefix) ==
    Len(str) >= Len(prefix) /\ SubSeq(str, 1, Len(prefix)) = prefix

\* The place of the first space of str, or Len(str) + 1.
FirstSpace(str) ==
    IF \E i \in 1..Len(str) : SubSeq(str, i, i) = " "
    THEN CHOOSE i \in 1..Len(str) :
             SubSeq(str, i, i) = " " /\ \A j \in 1..(i - 1) : SubSeq(str, j, j) # " "
    ELSE Len(str) + 1

\* str.partition(" "): the part before the first space and the part after.
PartitionHead(str) == SubSeq(str, 1, FirstSpace(str) - 1)
PartitionTail(str) == SubSeq(str, FirstSpace(str) + 1, Len(str))

\* str.split(" ")[1] of a string that holds a space.
SplitSecond(str) == PartitionHead(PartitionTail(str))

\* HTTPBearer(auto_error=False) on the request: the credentials, or None for
\* no header, a header without scheme or credentials, or another scheme.
HTTPBearer(header) ==
    IF ~Truthy(header) THEN PyNone
    ELSE LET scheme == PartitionHead(header.v)
             credentials == PartitionTail(header.v) IN
         IF scheme = "" \/ credentials = "" THEN PyNone
         ELSE IF Lower(scheme) # "bearer" THEN PyNone
         ELSE PyStr(credentials)

\* optional_auth: "pass", or the status of the HTTPException.
optional_auth(api_key, header) ==
    IF api_key = "none" THEN "pass"
    ELSE IF Truthy(HTTPBearer(header))
         THEN IF HTTPBearer(header).v = api_key THEN "pass" ELSE "403"
         ELSE "401"

\* check_api_key: "pass", or the status of the abort.
check_api_key(api_key, header) ==
    IF api_key = "" \/ api_key = "none" THEN "pass"
    ELSE IF ~Truthy(header) THEN "401"
    ELSE IF ~StartsWith(header.v, "Bearer ") THEN "401"
    ELSE IF SplitSecond(header.v) # api_key THEN "403"
    ELSE "pass"

\* The endpoints of app.py that declare Depends(optional_auth).
AuthEndpoints == {"browse", "screenshot", "minimize", "extract_text"}

(***************************************************************************)
(* Fingerprints.  hashlib.md5 is taken as injective: the digest of a       *)
(* string is the string under a tag.                                       *)
(***************************************************************************)
generate_cache_key(data) == <<"md5", data>>

\* The /browse key of app.py: the four fields joined by "-".
BrowseKeyData(url, method, post_data, browser_name) ==
    url \o "-" \o method \o "-" \o Format(post_data) \o "-" \o browser_name

BrowseKey(url, method, post_data, browser_name) ==
    generate_cache_key(BrowseKeyData(url, method, post_data, browser_name))

\* str(bool)
FormatBool(b) == IF b THEN "True" ELSE "False"

\* The /screenshot key of app.py.
ScreenshotKey(url, full_page) == generate_cache_key(url \o "_" \o FormatBool(full_page))

(***************************************************************************)
(* diskcache.Cache as app.py uses it: an entry is visible to `in` and to   *)
(* [] while its expire_time is later than the clock; set stores the time   *)
(* of the store and now + ttl.                                             *)
(***************************************************************************)
\* CacheContains with an entry still visible at its expire_time.
CacheContainsInclusive(c, k, t) == k \in DOMAIN c /\ c[k].expire_time >= t

CacheContains(c, k, t) == k \in DOMAIN c /\ c[k].expire_time > t

\* CacheSet that stores nothing.
CacheSetDropped(c, k, val, t, ttl) == c

CacheSet(c, k, val, t, ttl) ==
    [x \in DOMAIN c \cup {k} |->
        IF x = k THEN [value |-> val, store_time |-> t, expire_time |-> t + ttl]
        ELSE c[x]]

\* A serialisation that leaves the downloads out.
JsonDumpsWithoutDownloads(data) == [json |-> [data EXCEPT !.downloaded_files = <<>>]]

\* json.dumps / json.loads of a response.
JsonDumps(data) == [json |-> data]
JsonLoads(text) == text.json

(***************************************************************************)
(* The page events of a session.  The engine's request objects form two    *)
(* redirect chains: request 1, for the document, is redirected to request  *)
(* 2, and request 3, for an image of the page, to request 4.               *)
(***************************************************************************)
ReqIds == {1, 2}

ChainIds == {1, 2, 3, 4}

Request(i) ==
    [id |-> i,
     url |-> IF i = 1 THEN "http://u"
             ELSE IF i = 2 THEN "http://u/next"
             ELSE IF i = 3 THEN "http://u/img"
             ELSE "http://u/img/next",
     method |-> "GET",
     resource_type |-> IF i \in ReqIds THEN "document" ELSE "image",
     redirected_from |-> IF i \in {2, 4} THEN i - 1 ELSE 0,
     redirected_to |-> IF i \in {1, 3} THEN i + 1 ELSE 0]

ContentTypes == {"text/html", "application/json", "image/png", ""}

\* The response to request i, with the content-type header ct ("" = no header).
Response(i, ct) ==
    [request |-> i,
     url |-> Request(i).url,
     status |-> IF i \in {1, 3} THEN 302 ELSE 200,
     content_type |-> ct,
     body |-> IF i \in {1, 3} THEN "" ELSE "payload"]

\* request.redirected_from.url if request.redirected_from else None
RedirectUrl(i) == IF i = 0 THEN PyNone ELSE PyStr(Request(i).url)

\* base64.b64encode(body).decode("utf-8")
B64(bytes) == "base64(" \o bytes \o ")"

Unavailable == "Unavailable due to error"
BodyUnavailable == "Response body unavailable due to error"

\* The calls of the listeners that can raise.
RequestCaptures == {"request_headers", "cookies"}
ResponseCaptures ==
    {"request_headers", "response_headers", "body", "cookies", "security", "server"}

\* An entry that also fills the error field.
LogEntryWithError(key, msg) == (key :> msg) @@ ("error" :> msg)

\* A log entry is a dict with one key.
LogEntry(key, msg) == key :> msg

(***************************************************************************)
(* log_request of app.py: fails is the set of captures that raise.         *)
(***************************************************************************)
log_request_entry(request, request_uuid, fails) ==
    [uuid |-> request_uuid,
     network |-> "request",
     url |-> request.url,
     method |-> request.method,
     headers |-> IF "request_headers" \in fails
                 THEN PyStr(Unavailable) ELSE PyDict("request-headers"),
     cookies |-> IF "cookies" \in fails THEN PyStr(Unavailable) ELSE PyDict("cookies"),
     resource_type |-> request.resource_type,
     redirected_from |-> RedirectUrl(request.redirected_from),
     redirected_to |-> RedirectUrl(request.redirected_to),
     timing |-> PyDict("timing")]

log_request_warnings(fails) ==
    (IF "request_headers" \in fails
     THEN <<LogEntry("warning", "Failed to fetch request headers")>> ELSE <<>>)
    \o (IF "cookies" \in fails
        THEN <<LogEntry("warning", "Failed to fetch cookies")>> ELSE <<>>)

(***************************************************************************)
(* log_response of app.py.  response_headers is either the header dict or  *)
(* the marker string; the body block reads the content type with           *)
(* response_headers.get, which raises on the marker string, inside the     *)
(* try of the body.                                                        *)
(***************************************************************************)
ResponseHeaders(response, fails) ==
    IF "response_headers" \in fails
    THEN PyStr(Unavailable) ELSE PyDict(response.content_type)

\* The body block raises: .get on a str, or the fetch of the body itself.
BodyRaises(response, fails) ==
    ResponseHeaders(response, fails).t # "dict" \/ "body" \in fails

IsTextual(content_type) == Contains(content_type, "text") \/ Contains(content_type, "json")

ResponseBody(response, fails) ==
    IF BodyRaises(response, fails) THEN PyStr(BodyUnavailable)
    ELSE IF IsTextual(response.content_type) THEN PyStr(response.body)
    ELSE PyStr(B64(response.body))

ResponseSize(response, fails) ==
    IF BodyRaises(response, fails) THEN 0 ELSE Len(response.body)

log_response_entry(response, request_uuid, fails) ==
    LET request == Request(response.request) IN
    [uuid |-> request_uuid,
     network |-> "response",
     url |-> response.url,
     status |-> response.status,
     response_size |-> ResponseSize(response, fails),
     cookies |-> IF "cookies" \in fails THEN PyStr(Unavailable) ELSE PyDict("cookies"),
     security |-> IF "security" \in fails THEN PyStr(Unavailable) ELSE PyDict("security"),
     server |-> IF "server" \in fails THEN PyStr(Unavailable) ELSE PyDict("server"),
     resource_type |-> request.resource_type,
     redirected_to |-> RedirectUrl(request.redirected_to),
     redirected_from |-> RedirectUrl(request.redirected_from),
     timing |-> PyDict("timing"),
     request_headers |-> IF "request_headers" \in fails
                         THEN PyStr(Unavailable) ELSE PyDict("request-headers"),
     response_headers |-> ResponseHeaders(response, fails),
     response_body |-> ResponseBody(response, fails)]

Warn(cond, msg) == IF cond THEN <<LogEntry("warning", msg)>> ELSE <<>>

\* The warnings in the order in which log_response appends them.
log_response_warnings(response, fails) ==
    Warn("request_headers" \in fails, "Failed to fetch request headers")
    \o Warn("response_headers" \in fails, "Failed to fetch response headers")
    \o Warn(BodyRaises(response, fails), "Failed to fetch response body")
    \o Warn("cookies" \in fails, "Failed to fetch cookies")
    \o Warn("security" \in fails, "Failed to fetch security details")
    \o Warn("server" \in fails, "Failed to fetch server address")

\* RedirectStep with the number fixed by the request object, not by the
\* length of the list at the time of the append.
RedirectStepByRequest(response, reds, fails) ==
    LET request == Request(response.request) IN
    [step |-> request.id \div 2,
     from |-> Request(request.redirected_from).url,
     to |-> request.url,
     status_code |-> response.status,
     server |-> IF "server" \in fails THEN PyStr(Unavailable) ELSE PyDict("server"),
     resource_type |-> request.resource_type]

\* The redirect step log_response appends when the request was redirected.
RedirectStep(response, reds, fails) ==
    LET request == Request(response.request) IN
    [step |-> Len(reds) + 1,
     from |-> Request(request.redirected_from).url,
     to |-> request.url,
     status_code |-> response.status,
     server |-> IF "server" \in fails THEN PyStr(Unavailable) ELSE PyDict("server"),
     resource_type |-> request.resource_type]

log_response_redirects(response, reds, fails) ==
    IF Request(response.request).redirected_from # 0
    THEN Append(reds, RedirectStep(response, reds, fails)) ELSE reds

(***************************************************************************)
(* State.                                                                  *)
(***************************************************************************)
VARIABLES
    variant,           \* the program that runs: "app" (src/app.py) or "main" (src/main.py)
    API_KEY,           \* the configured secret
    authorization,     \* the Authorization header the client of this run sends
    now,               \* time.time()
    ticks,             \* clock ticks so far
    cache,             \* the result cache: key -> entry
    served,            \* requests answered so far
    req,               \* the request being served
    pc,                \* position of its handler
    cache_key,         \* the handler's cache_key
    playwright,        \* the async_playwright() context: "none", "running", "stopped"
    browser,           \* handle states: "none", "open", "closed"
    context,
    page,
    registered,        \* events of the page that have a listener
    nav,               \* the navigation page.goto was invoked with: "none", "GET", "POST"
    request_uuid_map,  \* request object -> uuid
    emitted,           \* page events the engine has raised in this session
    network_data,
    logs,
    redirects,
    title,
    meta_description,
    captured,          \* captures the session holds: performance, cookies, screenshot, video
    faults,            \* calls into the engine that failed in this session
    launches,          \* browsers launched for this request
    cache_reads,       \* cache lookups made for this request
    resp,              \* the response of the request
    disk,              \* the files in the download and video directories
    downloaded_files,  \* the downloads the session has read
    other,             \* a second session that runs at the same time
    key_in,            \* two request tuples handed to the fingerprint
    key_out            \* their two keys

vars ==
    <<variant, API_KEY, authorization, key_in, key_out, now, ticks, cache, served, req, pc, cache_key, playwright, browser,
      context, page, registered, nav, request_uuid_map, emitted, network_data, logs,
      redirects, title, meta_description, captured, faults, launches, cache_reads, resp,
      disk, downloaded_files, other>>

\* The file system as the handlers see it.
files == <<disk, downloaded_files>>

\* The state of one session: the locals of the handler.
session ==
    <<registered, nav, request_uuid_map, emitted, network_data, logs, redirects,
      title, meta_description, captured>>

handles == <<playwright, browser, context, page>>

clock == <<now, ticks>>

\* What no step of a request handler changes.
fixed == <<variant, API_KEY, authorization, key_in, key_out>>

NoKeys == <<>>

NoReq == [endpoint |-> "none"]
NoResp == [status |-> 0, kind |-> "none"]
NoKey == <<"none", "">>

EmptyCache == [k \in {} |-> 0]

Listeners == {"request", "response", "console", "pageerror", "download"}

Ttl == IF variant = "main" THEN CACHE_EXPIRATION ELSE CACHE_EXPIRATION_SECONDS

\* One tick of the clock, in seconds.
TickSeconds == Ttl \div TicksPerTtl

InitCommon ==
    /\ now = 0
    /\ ticks = 0
    /\ cache = EmptyCache
    /\ served = 0
    /\ req = NoReq
    /\ pc = "idle"
    /\ cache_key = NoKey
    /\ playwright = "none"
    /\ browser = "none"
    /\ context = "none"
    /\ page = "none"
    /\ registered = {}
    /\ nav = "none"
    /\ request_uuid_map = [i \in {} |-> PyNone]
    /\ emitted = {}
    /\ network_data = <<>>
    /\ logs = <<>>
    /\ redirects = <<>>
    /\ title = PyNone
    /\ meta_description = PyNone
    /\ captured = {}
    /\ faults = {}
    /\ launches = 0
    /\ cache_reads = 0
    /\ resp = NoResp

\* No fingerprint is being compared.
InitKeys == key_in = NoKeys /\ key_out = NoKeys

\* API_KEY is not set: the secret is "none", and the client sends no header.
InitOpen == API_KEY = "none" /\ authorization = PyNone

\* There is no second session.
NoOther == [pc |-> "none", downloaded_files |-> {}]

\* The directories are empty and there is one session at a time.
InitAlone == disk = {} /\ downloaded_files = <<>> /\ other = NoOther

Init == variant = "app" /\ InitOpen /\ InitAlone /\ InitCommon /\ InitKeys

\* The positions whose next step reads the clock: the membership test, the
\* read of the entry, the store.
ClockReadPcs ==
    {"b_lookup", "b_hit", "b_store", "m_lookup", "m_store", "s_lookup", "s_hit", "s_store",
     "h_lookup", "h_hit", "h_store"}

\* Time passes.  No other step reads the clock, so a tick anywhere else has
\* the effect of a tick at the next of these positions.
Tick ==
    /\ ticks < MaxTicks
    /\ pc \in ClockReadPcs
    /\ ticks' = ticks + 1
    /\ now' = now + TickSeconds
    /\ UNCHANGED <<fixed, files, other, cache, served, req, pc, cache_key, handles, session,
                   faults, launches, cache_reads, resp>>

\* The handler returns or raises: the response goes out.  Leaving the
\* `async with async_playwright()` block stops playwright.
Respond(r) ==
    /\ resp' = r
    /\ pc' = "done"
    /\ playwright' = IF playwright = "running" THEN "stopped" ELSE playwright

\* An exception nothing catches: the framework answers 500.
InternalError == [status |-> 500, kind |-> "error", content |-> PyStr("Internal Server Error")]

\* The server is ready for the next request: the handler's locals are gone.
Finish ==
    /\ pc = "done"
    /\ served' = served + 1
    /\ req' = NoReq
    /\ pc' = "idle"
    /\ cache_key' = NoKey
    /\ playwright' = "none"
    /\ browser' = "none"
    /\ context' = "none"
    /\ page' = "none"
    /\ registered' = {}
    /\ nav' = "none"
    /\ request_uuid_map' = [i \in {} |-> PyNone]
    /\ emitted' = {}
    /\ network_data' = <<>>
    /\ logs' = <<>>
    /\ redirects' = <<>>
    /\ title' = PyNone
    /\ meta_description' = PyNone
    /\ captured' = {}
    /\ faults' = {}
    /\ launches' = 0
    /\ cache_reads' = 0
    /\ resp' = NoResp
    /\ downloaded_files' = <<>>
    /\ UNCHANGED <<fixed, disk, other, clock, cache>>

(***************************************************************************)
(* GET /browse of app.py.                                                  *)
(***************************************************************************)
Urls == {"u"}
Methods == {"GET", "POST"}
Bodies == {PyNone, PyStr("None"), PyStr("None-b")}
BrowserNames == {"chromium", "b-chromium", "devices"}

BrowseRequests ==
    [endpoint : {"browse"}, url : Urls, method : Methods, post_data : Bodies,
     browser_name : BrowserNames, cookiebanner : BOOLEAN]

\* The decision of the auth check for a request to endpoint e.  Of the
\* endpoints of app.py only those of AuthEndpoints declare the dependency;
\* the hook of main.py runs before every request.
AuthDecision(e) ==
    IF variant = "main" THEN check_api_key(API_KEY, authorization)
    ELSE IF e \in AuthEndpoints THEN optional_auth(API_KEY, authorization)
    ELSE "pass"

AuthError(decision) ==
    [status |-> IF decision = "401" THEN 401 ELSE 403, kind |-> "error",
     content |-> PyStr(IF decision = "401" THEN "Authorization header missing or invalid"
                       ELSE "Invalid API key")]

\* The auth check turns a request to endpoint e down: the handler is not
\* called.
Reject(e) ==
    /\ pc = "idle"
    /\ served < MaxRequests
    /\ AuthDecision(e) # "pass"
    /\ req' = [endpoint |-> e]
    /\ Respond(AuthError(AuthDecision(e)))
    /\ UNCHANGED <<fixed, files, other, clock, cache, served, cache_key, browser,
                   context, page, session, faults, launches, cache_reads>>

\* A request arrives; line 123 computes its cache key.
BrowseReceive(r) ==
    /\ pc = "idle"
    /\ AuthDecision("browse") = "pass"
    /\ served < MaxRequests
    /\ req' = r
    /\ cache_key' = BrowseKey(r.url, r.method, r.post_data, r.browser_name)
    /\ pc' = "b_lookup"
    /\ UNCHANGED <<fixed, files, other, clock, cache, served, handles, session, faults,
                   launches, cache_reads, resp>>

\* if cache_key in cache
BrowseLookup ==
    /\ pc = "b_lookup"
    /\ cache_reads' = cache_reads + 1
    /\ pc' = IF CacheContains(cache, cache_key, now) THEN "b_hit" ELSE "b_resolve"
    /\ UNCHANGED <<fixed, files, other, clock, cache, served, req, cache_key, handles, session,
                   faults, launches, resp>>

\* return JSONResponse(content=json.loads(cache[cache_key])): the read looks
\* the entry up again, at the time of the read, and raises KeyError when the
\* entry is no longer visible.
BrowseHit ==
    /\ pc = "b_hit"
    /\ cache_reads' = cache_reads + 1
    /\ IF CacheContains(cache, cache_key, now)
       THEN Respond([status |-> 200, kind |-> "snapshot",
                     content |-> JsonLoads(cache[cache_key].value)])
       ELSE Respond(InternalError)
    /\ UNCHANGED <<fixed, files, other, clock, cache, served, req, cache_key, browser, context,
                   page, session, faults, launches>>

\* getattr(p, browser_name, None)
BrowserType(browser_name) ==
    IF browser_name \in Engines THEN "engine"
    ELSE IF browser_name \in OtherPlaywrightAttrs THEN "attribute"
    ELSE "None"

Unsupported(browser_name) ==
    [status |-> 400, kind |-> "error",
     content |-> PyStr("Browser \"" \o browser_name \o "\" is not supported")]

\* async with async_playwright() as p, and the engine is resolved.
BrowseResolve ==
    /\ pc = "b_resolve"
    /\ IF BrowserType(req.browser_name) = "None"
       THEN /\ resp' = Unsupported(req.browser_name)
            /\ pc' = "done"
            /\ playwright' = "stopped"
       ELSE /\ pc' = "b_launch"
            /\ playwright' = "running"
            /\ resp' = resp
    /\ UNCHANGED <<fixed, files, other, clock, cache, served, req, cache_key, browser, context,
                   page, session, faults, launches, cache_reads>>

\* A launch whose failure is swallowed: the handler goes on without a browser.
BrowseLaunchSwallowed(ok) ==
    /\ pc = "b_launch"
    /\ pc' = "b_context"
    /\ IF BrowserType(req.browser_name) = "engine" /\ ok
       THEN /\ browser' = "open"
            /\ launches' = launches + 1
            /\ UNCHANGED faults
       ELSE /\ faults' = faults \cup {"launch"}
            /\ UNCHANGED <<browser, launches>>
    /\ UNCHANGED <<fixed, files, other, clock, cache, served, req, cache_key, playwright,
                   context, page, session, cache_reads, resp>>

\* browser = await browser_type.launch(headless=True).  An attribute of the
\* playwright object that is no engine has no launch: AttributeError.
BrowseLaunch(ok) ==
    /\ pc = "b_launch"
    /\ IF BrowserType(req.browser_name) = "engine" /\ ok
       THEN /\ browser' = "open"
            /\ launches' = launches + 1
            /\ pc' = "b_context"
            /\ UNCHANGED <<playwright, resp, faults>>
       ELSE /\ Respond(InternalError)
            /\ faults' = faults \cup {"launch"}
            /\ UNCHANGED <<browser, launches>>
    /\ UNCHANGED <<fixed, files, other, clock, cache, served, req, cache_key, context, page,
                   session, cache_reads>>

\* context = await browser.new_context(...)
BrowseNewContext(ok) ==
    /\ pc = "b_context"
    /\ IF ok
       THEN /\ context' = "open"
            /\ pc' = "b_page"
            /\ UNCHANGED <<playwright, resp, faults>>
       ELSE /\ Respond(InternalError)
            /\ faults' = faults \cup {"new_context"}
            /\ UNCHANGED context
    /\ UNCHANGED <<fixed, files, other, clock, cache, served, req, cache_key, browser, page,
                   session, launches, cache_reads>>

\* The name by which the files of the request in hand are told from those of
\* other requests.
Mine == ToString(served)

\* The file in which the engine records the video of the page of this
\* request: a name of its own in the videos directory.
VideoFile == <<"videos", Mine>>

\* page = await context.new_page(); the context records video, so the
\* recording of the page starts.
BrowseNewPage(ok) ==
    /\ pc = "b_page"
    /\ IF ok
       THEN /\ page' = "open"
            /\ disk' = disk \cup {VideoFile}
            /\ pc' = "b_listen"
            /\ UNCHANGED <<playwright, resp, faults>>
       ELSE /\ Respond(InternalError)
            /\ faults' = faults \cup {"new_page"}
            /\ UNCHANGED <<page, disk>>
    /\ UNCHANGED <<fixed, downloaded_files, other, clock, cache, served, req, cache_key, browser, context,
                   session, launches, cache_reads>>

\* The listeners browse registers, lines 325 to 340.
BrowseListeners == {"request", "response", "console", "pageerror", "download"}

\* The five page.on calls: no await between them.
BrowseRegister ==
    /\ pc = "b_listen"
    /\ registered' = registered \cup BrowseListeners
    /\ pc' = "b_goto"
    /\ UNCHANGED <<fixed, files, other, clock, cache, served, req, cache_key, handles, nav,
                   request_uuid_map, emitted, network_data, logs, redirects, title,
                   meta_description, captured, faults, launches, cache_reads, resp>>

\* if method == "POST" and post_data: a POST navigation, else a plain goto.
NavigationKind(method, post_data) ==
    IF method = "POST" /\ Truthy(post_data) THEN "POST" ELSE "GET"

\* page.goto is invoked; the handler is suspended in it.
BrowseGoto ==
    /\ pc = "b_goto"
    /\ nav' = NavigationKind(req.method, req.post_data)
    /\ pc' = "b_navigating"
    /\ UNCHANGED <<fixed, files, other, clock, cache, served, req, cache_key, handles, registered,
                   request_uuid_map, emitted, network_data, logs, redirects, title,
                   meta_description, captured, faults, launches, cache_reads, resp>>

NavigationTimedOut == LogEntry("console_message", "Navigation timed out")

\* NavigationStep without the except clause: the timeout leaves the handler.
NavigationStepUncaught(outcome, fault, next) ==
    CASE outcome = "ok" ->
            /\ pc' = next
            /\ UNCHANGED <<logs, faults, playwright, resp>>
      [] outcome = "timeout" ->
            /\ Respond(InternalError)
            /\ faults' = faults \cup {fault \o "_timeout"}
            /\ UNCHANGED logs
      [] outcome = "error" ->
            /\ Respond(InternalError)
            /\ faults' = faults \cup {fault \o "_error"}
            /\ UNCHANGED logs

\* NavigationStep with an except clause that only passes.
NavigationStepSilent(outcome, fault, next) ==
    CASE outcome = "ok" ->
            /\ pc' = next
            /\ UNCHANGED <<logs, faults, playwright, resp>>
      [] outcome = "timeout" ->
            /\ faults' = faults \cup {fault \o "_timeout"}
            /\ pc' = "b_meta"
            /\ UNCHANGED <<logs, playwright, resp>>
      [] outcome = "error" ->
            /\ Respond(InternalError)
            /\ faults' = faults \cup {fault \o "_error"}
            /\ UNCHANGED logs

\* How an awaited navigation step of the try block (lines 342 to 359) ends:
\* a PlaywrightTimeoutError is caught and logged, any other exception leaves
\* the handler.
NavigationStep(outcome, fault, next) ==
    CASE outcome = "ok" ->
            /\ pc' = next
            /\ UNCHANGED <<logs, faults, playwright, resp>>
      [] outcome = "timeout" ->
            /\ logs' = Append(logs, NavigationTimedOut)
            /\ faults' = faults \cup {fault \o "_timeout"}
            /\ pc' = "b_meta"
            /\ UNCHANGED <<playwright, resp>>
      [] outcome = "error" ->
            /\ Respond(InternalError)
            /\ faults' = faults \cup {fault \o "_error"}
            /\ UNCHANGED logs

NavigationOutcomes == {"ok", "timeout", "error"}

\* page.goto followed by the banner pass whatever the cookiebanner flag says.
BrowseGotoReturnBannerAlways(outcome) ==
    /\ pc = "b_navigating"
    /\ NavigationStep(outcome, "goto", "b_banner")
    /\ UNCHANGED <<fixed, files, other, clock, cache, served, req, cache_key, browser, context,
                   page, registered, nav, request_uuid_map, emitted, network_data,
                   redirects, title, meta_description, captured, launches, cache_reads>>

\* page.goto returns or raises.
BrowseGotoReturn(outcome) ==
    /\ pc = "b_navigating"
    /\ NavigationStep(outcome, "goto", IF req.cookiebanner THEN "b_banner" ELSE "b_idlewait")
    /\ UNCHANGED <<fixed, files, other, clock, cache, served, req, cache_key, browser, context,
                   page, registered, nav, request_uuid_map, emitted, network_data,
                   redirects, title, meta_description, captured, launches, cache_reads>>

\* hide_cookie_banners without the two try blocks: the first injection that
\* fails leaves the handler.
BrowseHideCookieBannersUncaught(ok1, ok2) ==
    /\ pc = "b_banner"
    /\ IF ok1 /\ ok2
       THEN /\ pc' = "b_idlewait"
            /\ captured' = captured \cup {"hide_script", "hide_function"}
            /\ UNCHANGED <<faults, playwright, resp>>
       ELSE /\ Respond(InternalError)
            /\ faults' = faults \cup {IF ok1 THEN "hide_function" ELSE "hide_script"}
            /\ UNCHANGED captured
    /\ UNCHANGED <<fixed, files, other, clock, cache, served, req, cache_key, browser, context,
                   page, registered, nav, request_uuid_map, emitted, network_data, logs,
                   redirects, title, meta_description, launches, cache_reads>>

\* await hide_cookie_banners(page): two script injections, one after the
\* other, each in its own try that swallows every exception.  captured
\* holds the injections that went through, faults those that raised.
BrowseHideCookieBanners(ok1, ok2) ==
    /\ pc = "b_banner"
    /\ pc' = "b_idlewait"
    /\ captured' = captured \cup (IF ok1 THEN {"hide_script"} ELSE {})
                            \cup (IF ok2 THEN {"hide_function"} ELSE {})
    /\ faults' = faults \cup (IF ok1 THEN {} ELSE {"hide_script"})
                        \cup (IF ok2 THEN {} ELSE {"hide_function"})
    /\ UNCHANGED <<fixed, files, other, clock, cache, served, req, cache_key, handles,
                   registered, nav, request_uuid_map, emitted, network_data, logs,
                   redirects, title, meta_description, launches, cache_reads, resp>>

\* await page.wait_for_load_state("networkidle", timeout=120000)
BrowseWaitForLoadState(outcome) ==
    /\ pc = "b_idlewait"
    /\ NavigationStep(outcome, "idle", "b_meta")
    /\ UNCHANGED <<fixed, files, other, clock, cache, served, req, cache_key, browser, context,
                   page, registered, nav, request_uuid_map, emitted, network_data,
                   redirects, title, meta_description, captured, launches, cache_reads>>

TitleUnavailable == "Title unavailable due to navigation"
MetaUnavailable == "Meta description unavailable due to navigation"
NoMetaDescription == "No Meta Description"

\* The attribute as read, without the `or`.
OrDefaultKept(x) == x

\* x or "No Meta Description"
OrDefault(x) == IF Truthy(x) THEN x ELSE PyStr(NoMetaDescription)

\* The content attribute of the description meta element, as the page gives it.
MetaContents == {PyNone, PyStr(""), PyStr("a description")}

\* Lines 361 to 369: title and meta description, playwright errors caught.
BrowseMeta(ok, content) ==
    /\ pc = "b_meta"
    /\ IF ok
       THEN /\ title' = PyStr("a title")
            /\ meta_description' = OrDefault(content)
            /\ UNCHANGED faults
       ELSE /\ title' = PyStr(TitleUnavailable)
            /\ meta_description' = PyStr(MetaUnavailable)
            /\ faults' = faults \cup {"meta"}
    /\ pc' = "b_perf"
    /\ UNCHANGED <<fixed, files, other, clock, cache, served, req, cache_key, handles, registered,
                   nav, request_uuid_map, emitted, network_data, logs, redirects,
                   captured, launches, cache_reads, resp>>

\* An awaited capture outside any try: its value is kept, or its exception
\* leaves the handler.
Capture(ok, what, next) ==
    IF ok
    THEN /\ captured' = captured \cup {what}
         /\ pc' = next
         /\ UNCHANGED <<faults, playwright, resp>>
    ELSE /\ Respond(InternalError)
         /\ faults' = faults \cup {what}
         /\ UNCHANGED captured

\* performance_timing = await page.evaluate(...)
BrowsePerformance(ok) ==
    /\ pc = "b_perf"
    /\ Capture(ok, "performance", "b_cookies")
    /\ UNCHANGED <<fixed, files, other, clock, cache, served, req, cache_key, browser, context,
                   page, registered, nav, request_uuid_map, emitted, network_data, logs,
                   redirects, title, meta_description, launches, cache_reads>>

\* cookies = await context.cookies()
BrowseCookies(ok) ==
    /\ pc = "b_cookies"
    /\ Capture(ok, "cookies", "b_shot")
    /\ UNCHANGED <<fixed, files, other, clock, cache, served, req, cache_key, browser, context,
                   page, registered, nav, request_uuid_map, emitted, network_data, logs,
                   redirects, title, meta_description, launches, cache_reads>>

\* screenshot = await page.screenshot(), then the image pipeline.
BrowseScreenshot(ok) ==
    /\ pc = "b_shot"
    /\ Capture(ok, "screenshot", "b_closectx")
    /\ UNCHANGED <<fixed, files, other, clock, cache, served, req, cache_key, browser, context,
                   page, registered, nav, request_uuid_map, emitted, network_data, logs,
                   redirects, title, meta_description, launches, cache_reads>>

\* A teardown that waits for the download tasks before it closes the
\* context.
BrowseCloseContextAfterDownloads(ok) ==
    /\ pc = "b_closectx"
    /\ \A e \in emitted : e[1] = "download" => <<"downloaded", e[2]>> \in emitted
    /\ IF ok
       THEN /\ context' = "closed"
            /\ page' = "closed"
            /\ pc' = "b_closebrowser"
            /\ UNCHANGED <<faults, playwright, resp>>
       ELSE /\ Respond(InternalError)
            /\ faults' = faults \cup {"context_close"}
            /\ UNCHANGED <<context, page>>
    /\ UNCHANGED <<fixed, files, other, clock, cache, served, req, cache_key, browser, session,
                   launches, cache_reads>>

\* await context.close()
BrowseCloseContext(ok) ==
    /\ pc = "b_closectx"
    /\ IF ok
       THEN /\ context' = "closed"
            /\ page' = "closed"
            /\ pc' = "b_closebrowser"
            /\ UNCHANGED <<faults, playwright, resp>>
       ELSE /\ Respond(InternalError)
            /\ faults' = faults \cup {"context_close"}
            /\ UNCHANGED <<context, page>>
    /\ UNCHANGED <<fixed, files, other, clock, cache, served, req, cache_key, browser, session,
                   launches, cache_reads>>

\* await browser.close()
BrowseCloseBrowser(ok) ==
    /\ pc = "b_closebrowser"
    /\ IF ok
       THEN /\ browser' = "closed"
            /\ pc' = "b_video"
            /\ UNCHANGED <<faults, playwright, resp>>
       ELSE /\ Respond(InternalError)
            /\ faults' = faults \cup {"browser_close"}
            /\ UNCHANGED browser
    /\ UNCHANGED <<fixed, files, other, clock, cache, served, req, cache_key, context, page,
                   session, launches, cache_reads>>

\* The video steps moved ahead of context.close(): the file is read and
\* removed while the context still records.
BrowseVideoBeforeClose(ok) ==
    /\ pc = "b_closectx"
    /\ "video" \notin captured
    /\ Capture(ok, "video", "b_closectx")
    /\ disk' = IF ok THEN disk \ {VideoFile} ELSE disk
    /\ UNCHANGED <<fixed, downloaded_files, other, clock, cache, served, req, cache_key, browser, context,
                   page, registered, nav, request_uuid_map, emitted, network_data, logs,
                   redirects, title, meta_description, launches, cache_reads>>

\* Lines 390 to 397: the video file is located, read, encoded and removed.
BrowseVideo(ok) ==
    /\ pc = "b_video"
    /\ Capture(ok, "video", "b_store")
    /\ disk' = IF ok THEN disk \ {VideoFile} ELSE disk
    /\ UNCHANGED <<fixed, downloaded_files, other, clock, cache, served, req, cache_key, browser, context,
                   page, registered, nav, request_uuid_map, emitted, network_data, logs,
                   redirects, title, meta_description, launches, cache_reads>>

\* response_data, lines 399 to 411.
ResponseData ==
    [redirects |-> redirects,
     page_title |-> title,
     meta_description |-> meta_description,
     network_data |-> network_data,
     logs |-> logs,
     cookies |-> "cookies" \in captured,
     performance_metrics |-> "performance" \in captured,
     screenshot |-> "screenshot" \in captured,
     thumbnail |-> "screenshot" \in captured,
     downloaded_files |-> downloaded_files,
     video |-> "video" \in captured]

\* Lines 413 to 415: serialise, cache.set, return.
BrowseStore ==
    /\ pc = "b_store"
    /\ cache' = CacheSet(cache, cache_key, JsonDumps(ResponseData), now, Ttl)
    /\ Respond([status |-> 200, kind |-> "snapshot", content |-> ResponseData])
    /\ UNCHANGED <<fixed, files, other, clock, served, req, cache_key, browser, context, page,
                   session, faults, launches, cache_reads>>

(***************************************************************************)
(* Page events.  The engine raises them while the handler is suspended in  *)
(* an await and the context is open; an event reaches a listener only if   *)
(* one is registered for it.                                               *)
(***************************************************************************)
AwaitingPcs ==
    {"b_navigating", "b_banner", "b_idlewait", "b_meta", "b_perf", "b_cookies",
     "b_shot", "b_closectx", "m_navigating", "m_shot", "m_close"}

PageLive == pc \in AwaitingPcs /\ context = "open" /\ nav # "none"

\* str(uuid.uuid4()): a value no earlier call returned.
Uuid4(map) == PyStr("uuid-" \o ToString(Cardinality(DOMAIN map) + 1))

\* request_uuid_map.get(request)
MapGet(map, i) == IF i \in DOMAIN map THEN map[i] ELSE PyNone

\* The name under which faults records that capture c raised in the listener
\* of the event of request object i.
CaptureFault(kind, i, c) == kind \o "-" \o ToString(i) \o "-" \o c

\* The page raises the request event of request object i.
OnRequest(i, fails) ==
    /\ PageLive
    /\ <<"request", i>> \notin emitted
    /\ Request(i).redirected_from # 0 => <<"response", Request(i).redirected_from>> \in emitted
    /\ emitted' = emitted \cup {<<"request", i>>}
    /\ IF "request" \in registered
       THEN LET request_uuid == Uuid4(request_uuid_map) IN
            /\ request_uuid_map' = (i :> request_uuid) @@ request_uuid_map
            /\ logs' = logs \o log_request_warnings(fails)
            /\ network_data' =
                   Append(network_data, log_request_entry(Request(i), request_uuid, fails))
       ELSE UNCHANGED <<request_uuid_map, logs, network_data>>
    /\ faults' = faults \cup {CaptureFault("request", i, c) : c \in fails}
    /\ UNCHANGED <<fixed, files, other, clock, cache, served, req, pc, cache_key, handles,
                   registered, nav, redirects, title, meta_description, captured,
                   launches, cache_reads, resp>>

\* The page raises the response event of request object i.
OnResponse(i, content_type, fails) ==
    /\ PageLive
    /\ <<"request", i>> \in emitted
    /\ <<"response", i>> \notin emitted
    /\ emitted' = emitted \cup {<<"response", i>>}
    /\ IF "response" \in registered
       THEN LET response == Response(i, content_type)
                request_uuid == MapGet(request_uuid_map, i) IN
            /\ logs' = logs \o log_response_warnings(response, fails)
            /\ network_data' =
                   Append(network_data, log_response_entry(response, request_uuid, fails))
            /\ redirects' = log_response_redirects(response, redirects, fails)
       ELSE UNCHANGED <<logs, network_data, redirects>>
    /\ faults' = faults \cup {CaptureFault("response", i, c) : c \in fails}
    /\ UNCHANGED <<fixed, files, other, clock, cache, served, req, pc, cache_key, handles,
                   registered, nav, request_uuid_map, title, meta_description,
                   captured, launches, cache_reads, resp>>

\* log_console and log_js_error: the append is in a try that swallows.
LogLine(kind, ok) ==
    /\ PageLive
    /\ emitted' = emitted \cup {<<kind, Cardinality(emitted)>>}
    /\ IF kind \in registered /\ ok
       THEN logs' = Append(logs, LogEntry(IF kind = "console" THEN "console_message"
                                          ELSE "javascript_error", "text"))
       ELSE UNCHANGED logs
    /\ UNCHANGED <<fixed, files, other, clock, cache, served, req, pc, cache_key, handles,
                   registered, nav, request_uuid_map, network_data, redirects, title,
                   meta_description, captured, faults, launches, cache_reads, resp>>

OnConsole(ok) == LogLine("console", ok)

OnPageError(ok) == LogLine("pageerror", ok)

\* The steps of a /browse session, from the cache miss to the response.
BrowseSession ==
    \/ BrowseResolve
    \/ \E ok \in BOOLEAN : BrowseLaunch(ok)
    \/ \E ok \in BOOLEAN : BrowseNewContext(ok)
    \/ \E ok \in BOOLEAN : BrowseNewPage(ok)
    \/ BrowseRegister
    \/ BrowseGoto
    \/ \E o \in NavigationOutcomes : BrowseGotoReturn(o)
    \/ \E o \in NavigationOutcomes : BrowseWaitForLoadState(o)
    \/ \E ok \in BOOLEAN : BrowsePerformance(ok)
    \/ \E ok \in BOOLEAN : BrowseCookies(ok)
    \/ \E ok \in BOOLEAN : BrowseScreenshot(ok)
    \/ \E ok \in BOOLEAN : BrowseCloseContext(ok)
    \/ \E ok \in BOOLEAN : BrowseCloseBrowser(ok)
    \/ \E ok \in BOOLEAN : BrowseVideo(ok)
    \/ BrowseStore

(***************************************************************************)
(* /browse of main.py: parse_parameters, generate_cache_key, and           *)
(* process_request behind the cache_response wrapper.  The handler is      *)
(* synchronous; every exception ends in the except of browse (500).        *)
(***************************************************************************)
\* base64.b64decode(text).decode("utf-8"); raises on text that is no base64.
IsB64(text) ==
    Len(text) >= 8 /\ SubSeq(text, 1, 7) = "base64(" /\ SubSeq(text, Len(text), Len(text)) = ")"
B64Decode(text) == SubSeq(text, 8, Len(text) - 1)

\* json.dumps(key_data, sort_keys=True) under md5: the fields in key order.
main_generate_cache_key(url, method, post_data, browser_name, extensions) ==
    <<"md5", <<"browser_name", browser_name, "extensions", extensions,
               "method", method, "post_data", post_data, "url", url>>>>

MainError(msg) == [status |-> 500, kind |-> "error", content |-> PyStr(msg)]

\* http is the verb of the HTTP request, method the parameter of that name.
MainRequest(http, url, method, postData, name) ==
    [endpoint |-> "browse", http |-> http, url |-> url, method |-> method,
     postData |-> postData, browser |-> name]

\* A plain request, a POST navigation, a request for no engine with an
\* encoded body, a body that is no base64, a request without url.
MainRequests ==
    {MainRequest("POST", "u", "get", PyNone, "Chromium"),
     MainRequest("POST", "u", "post", PyStr("b"), "chromium"),
     MainRequest("GET", "u", "get", PyStr("base64(b)"), "devices"),
     MainRequest("GET", "u", "get", PyStr("b"), "chromium"),
     MainRequest("POST", "", "get", PyNone, "chromium")}

\* parse_parameters
parse_parameters(r) ==
    [endpoint |-> "browse",
     url |-> r.url,
     method |-> Upper(r.method),
     post_data |-> IF r.http = "GET" /\ Truthy(r.postData)
                   THEN PyStr(B64Decode(r.postData.v)) ELSE r.postData,
     browser_name |-> Lower(r.browser),
     extensions |-> <<>>]

\* browse up to the call of process_request.
MainReceive(r) ==
    /\ pc = "idle"
    /\ AuthDecision("browse") = "pass"
    /\ served < MaxRequests
    /\ IF r.http = "GET" /\ Truthy(r.postData) /\ ~IsB64(r.postData.v)
       THEN /\ Respond(MainError("Incorrect padding"))
            /\ req' = [endpoint |-> "browse"]
            /\ UNCHANGED cache_key
       ELSE LET q == parse_parameters(r) IN
            /\ req' = q
            /\ IF q.url = ""
               THEN /\ Respond([status |-> 400, kind |-> "error",
                                content |-> PyStr("URL is required")])
                    /\ UNCHANGED cache_key
               ELSE /\ cache_key' = main_generate_cache_key(q.url, q.method, q.post_data,
                                                            q.browser_name, q.extensions)
                    /\ pc' = "m_lookup"
                    /\ UNCHANGED <<playwright, resp>>
    /\ UNCHANGED <<fixed, files, other, clock, cache, served, browser, context, page, session,
                   faults, launches, cache_reads>>

\* dict without a key
Without(c, k) == [x \in DOMAIN c \ {k} |-> c[x]]

\* The first half of the wrapper, under the lock: a fresh entry is returned,
\* an expired one deleted.
MainLookup ==
    /\ pc = "m_lookup"
    /\ cache_reads' = cache_reads + 1
    /\ IF cache_key \in DOMAIN cache
       THEN IF now - cache[cache_key].timestamp < CACHE_EXPIRATION
            THEN /\ Respond([status |-> 200, kind |-> "snapshot",
                             content |-> cache[cache_key].response])
                 /\ UNCHANGED cache
            ELSE /\ cache' = Without(cache, cache_key)
                 /\ pc' = "m_resolve"
                 /\ UNCHANGED <<playwright, resp>>
       ELSE /\ pc' = "m_resolve"
            /\ UNCHANGED <<cache, playwright, resp>>
    /\ UNCHANGED <<fixed, files, other, clock, served, req, cache_key, browser, context, page,
                   session, faults, launches>>

MainUnsupported(browser_name) ==
    [error |-> PyStr("Browser \"" \o browser_name \o "\" is not supported")]

\* os.path.join(os.getcwd(), "downloads"): one directory for every request.
DownloadsDir == <<"downloads", "dir">>

\* The files of the directory, whichever session's browser wrote them.
Downloads(d) == {f \in d : f[1] = "downloads" /\ f # DownloadsDir}

\* The files in the order in which os.walk lists them.
SeqOf(set) ==
    CHOOSE seq \in [1..Cardinality(set) -> set] : \A f \in set : \E k \in DOMAIN seq : seq[k] = f

\* with sync_playwright() as p, and the if chain over the browser name; the
\* error dict is the return value of process_request.  For an engine the
\* download directory is made when it is not there.
MainResolve ==
    /\ pc = "m_resolve"
    /\ IF req.browser_name \in Engines
       THEN /\ pc' = "m_launch"
            /\ playwright' = "running"
            /\ disk' = disk \cup {DownloadsDir}
       ELSE /\ pc' = "m_store"
            /\ playwright' = "stopped"
            /\ UNCHANGED disk
    /\ UNCHANGED <<fixed, downloaded_files, other, clock, cache, served, req, cache_key, browser, context,
                   page, session, faults, launches, cache_reads, resp>>

\* A call of process_request raises: the exception leaves the with block and
\* the wrapper and is answered by the except of browse.
MainRaise(fault) ==
    /\ Respond(MainError(fault))
    /\ faults' = faults \cup {fault}

MainLaunch(ok) ==
    /\ pc = "m_launch"
    /\ IF ok
       THEN /\ browser' = "open"
            /\ launches' = launches + 1
            /\ pc' = "m_context"
            /\ UNCHANGED <<playwright, resp, faults>>
       ELSE /\ MainRaise("launch")
            /\ UNCHANGED <<browser, launches>>
    /\ UNCHANGED <<fixed, files, other, clock, cache, served, req, cache_key, context, page,
                   session, cache_reads>>

MainNewContext(ok) ==
    /\ pc = "m_context"
    /\ IF ok
       THEN /\ context' = "open"
            /\ pc' = "m_page"
            /\ UNCHANGED <<playwright, resp, faults>>
       ELSE /\ MainRaise("new_context")
            /\ UNCHANGED context
    /\ UNCHANGED <<fixed, files, other, clock, cache, served, req, cache_key, browser, page,
                   session, launches, cache_reads>>

MainNewPage(ok) ==
    /\ pc = "m_page"
    /\ IF ok
       THEN /\ page' = "open"
            /\ pc' = "m_listen"
            /\ UNCHANGED <<playwright, resp, faults>>
       ELSE /\ MainRaise("new_page")
            /\ UNCHANGED page
    /\ UNCHANGED <<fixed, files, other, clock, cache, served, req, cache_key, browser, context,
                   session, launches, cache_reads>>

\* The listeners process_request registers, lines 238 and 239.
MainListeners == {"request", "response"}

MainRegister ==
    /\ pc = "m_listen"
    /\ registered' = registered \cup MainListeners
    /\ pc' = IF NavigationKind(req.method, req.post_data) = "POST" THEN "m_post" ELSE "m_goto"
    /\ UNCHANGED <<fixed, files, other, clock, cache, served, req, cache_key, handles, nav,
                   request_uuid_map, emitted, network_data, logs, redirects, title,
                   meta_description, captured, faults, launches, cache_reads, resp>>

\* response = page.request.post(url, data=post_data): no page event.
MainPost(ok) ==
    /\ pc = "m_post"
    /\ IF ok
       THEN /\ captured' = captured \cup {"post"}
            /\ pc' = "m_goto"
            /\ UNCHANGED <<playwright, resp, faults>>
       ELSE /\ MainRaise("post")
            /\ UNCHANGED captured
    /\ UNCHANGED <<fixed, files, other, clock, cache, served, req, cache_key, browser, context,
                   page, registered, nav, request_uuid_map, emitted, network_data,
                   logs, redirects, title, meta_description, launches, cache_reads>>

\* page.goto is invoked.
MainGoto ==
    /\ pc = "m_goto"
    /\ nav' = "GET"
    /\ pc' = "m_navigating"
    /\ UNCHANGED <<fixed, files, other, clock, cache, served, req, cache_key, handles, registered,
                   request_uuid_map, emitted, network_data, logs, redirects, title,
                   meta_description, captured, faults, launches, cache_reads, resp>>

\* page.goto returns or raises; nothing in process_request catches.
MainGotoReturn(outcome) ==
    /\ pc = "m_navigating"
    /\ IF outcome = "ok"
       THEN /\ pc' = "m_shot"
            /\ UNCHANGED <<playwright, resp, faults>>
       ELSE MainRaise("goto_" \o outcome)
    /\ UNCHANGED <<fixed, files, other, clock, cache, served, req, cache_key, browser, context,
                   page, session, launches, cache_reads>>

\* screenshot = page.screenshot(), then the walk over the download directory.
MainScreenshot(ok) ==
    /\ pc = "m_shot"
    /\ IF ~ok
       THEN /\ MainRaise("screenshot")
            /\ UNCHANGED <<captured, files>>
       ELSE IF DownloadsDir \notin disk
       THEN /\ MainRaise("rmtree")
            /\ captured' = captured \cup {"screenshot"}
            /\ UNCHANGED files
       ELSE /\ captured' = captured \cup {"screenshot"}
            /\ downloaded_files' = SeqOf(Downloads(disk))
            /\ disk' = disk \ (Downloads(disk) \cup {DownloadsDir})
            /\ pc' = "m_close"
            /\ UNCHANGED <<playwright, resp, faults>>
    /\ UNCHANGED <<fixed, other, clock, cache, served, req, cache_key, browser, context,
                   page, registered, nav, request_uuid_map, emitted, network_data,
                   logs, redirects, title, meta_description, launches, cache_reads>>

\* browser.close() closes the browser with its contexts and pages; the with
\* block is left on the return.
MainClose(ok) ==
    /\ pc = "m_close"
    /\ IF ok
       THEN /\ browser' = "closed"
            /\ context' = "closed"
            /\ page' = "closed"
            /\ playwright' = "stopped"
            /\ pc' = "m_store"
            /\ UNCHANGED <<resp, faults>>
       ELSE /\ MainRaise("browser_close")
            /\ UNCHANGED <<browser, context, page>>
    /\ UNCHANGED <<fixed, files, other, clock, cache, served, req, cache_key, session, launches,
                   cache_reads>>

\* response_data, lines 269 to 274.
MainResponseData ==
    [redirects |-> redirects,
     network_data |-> network_data,
     screenshot |-> "screenshot" \in captured,
     downloaded_files |-> downloaded_files]

\* What process_request returned.
MainResult ==
    IF req.browser_name \in Engines THEN MainResponseData
    ELSE MainUnsupported(req.browser_name)

\* min(cache.keys(), key=lambda k: cache[k]["timestamp"])
OldestKey(c) == CHOOSE k \in DOMAIN c : \A x \in DOMAIN c : c[k].timestamp <= c[x].timestamp

\* The insertion without the test of the size.
MainCacheInsertUnbounded(c, k, response, t) ==
    [x \in DOMAIN c \cup {k} |->
        IF x = k THEN [response |-> response, timestamp |-> t] ELSE c[x]]

\* Lines 101 to 105: at the size cap the oldest entry goes, then the
\* response is stored with the time of the store.
MainCacheInsert(c, k, response, t) ==
    LET kept == IF Cardinality(DOMAIN c) >= CACHE_MAX_SIZE
                THEN Without(c, OldestKey(c)) ELSE c
    IN [x \in DOMAIN kept \cup {k} |->
           IF x = k THEN [response |-> response, timestamp |-> t] ELSE kept[x]]

\* The second half of the wrapper, under the lock.
MainStore ==
    /\ pc = "m_store"
    /\ cache' = MainCacheInsert(cache, cache_key, MainResult, now)
    /\ Respond([status |-> 200, kind |-> "snapshot", content |-> MainResult])
    /\ UNCHANGED <<fixed, files, other, clock, served, req, cache_key, browser, context, page,
                   session, faults, launches, cache_reads>>

\* log_request of main.py: request_map[request.url] = {...}
MainOnRequest(i) ==
    /\ PageLive
    /\ <<"request", i>> \notin emitted
    /\ Request(i).redirected_from # 0 => <<"response", Request(i).redirected_from>> \in emitted
    /\ emitted' = emitted \cup {<<"request", i>>}
    /\ IF "request" \in registered
       THEN request_uuid_map' =
                (Request(i).url :> PyDict("request")) @@ request_uuid_map
       ELSE UNCHANGED request_uuid_map
    /\ UNCHANGED <<fixed, files, other, clock, cache, served, req, pc, cache_key, handles,
                   registered, nav, network_data, logs, redirects, title,
                   meta_description, captured, faults, launches, cache_reads, resp>>

\* The location header of a response: the url of the request it redirects to.
Location(i) == RedirectUrl(Request(i).redirected_to)

main_log_response_entry(response, body_ok) ==
    [url |-> response.url,
     method |-> Request(response.request).method,
     security |-> PyDict("security"),
     server |-> PyDict("server"),
     request_headers |-> PyDict("request-headers"),
     request_body |-> PyNone,
     status_code |-> response.status,
     response_headers |-> PyDict(response.content_type),
     response_body |->
         IF ~body_ok THEN PyStr("Response body unavailable (possibly a redirect)")
         ELSE IF IsTextual(response.content_type) THEN PyStr(response.body)
         ELSE PyStr(B64(response.body)),
     response_size |-> IF body_ok THEN Len(response.body) ELSE 0,
     cookies |-> PyDict("cookies")]

\* log_response of main.py: one try around the whole listener (a capture
\* that raises drops the entry), an inner try around the body.
MainOnResponse(i, content_type, ok, body_ok) ==
    /\ PageLive
    /\ <<"request", i>> \in emitted
    /\ <<"response", i>> \notin emitted
    /\ emitted' = emitted \cup {<<"response", i>>}
    /\ IF "response" \in registered /\ ok
       THEN LET response == Response(i, content_type) IN
            /\ network_data' =
                   Append(network_data, main_log_response_entry(response, body_ok))
            /\ IF 300 <= response.status /\ response.status < 400 /\ Truthy(Location(i))
               THEN /\ redirects' =
                           Append(redirects, [step |-> Len(redirects) + 1,
                                              from |-> response.url,
                                              to |-> Location(i).v,
                                              status_code |-> response.status])
                    /\ request_uuid_map' =
                           (Location(i).v :> MapGet(request_uuid_map, response.url))
                               @@ request_uuid_map
               ELSE UNCHANGED <<redirects, request_uuid_map>>
       ELSE UNCHANGED <<network_data, redirects, request_uuid_map>>
    /\ UNCHANGED <<fixed, files, other, clock, cache, served, req, pc, cache_key, handles,
                   registered, nav, logs, title, meta_description, captured, faults,
                   launches, cache_reads, resp>>

\* The steps of process_request after the cache miss.
MainSession ==
    \/ MainResolve
    \/ \E ok \in BOOLEAN : MainLaunch(ok)
    \/ \E ok \in BOOLEAN : MainNewContext(ok)
    \/ \E ok \in BOOLEAN : MainNewPage(ok)
    \/ MainRegister
    \/ \E ok \in BOOLEAN : MainPost(ok)
    \/ MainGoto
    \/ \E o \in NavigationOutcomes : MainGotoReturn(o)
    \/ \E ok \in BOOLEAN : MainScreenshot(ok)
    \/ \E ok \in BOOLEAN : MainClose(ok)
    \/ MainStore

(***************************************************************************)
(* The service: /browse requests one after the other over the cache, the   *)
(* clock running.  The requests are chosen so that their key strings       *)
(* coincide: an absent body and the body "None", and a body and a browser  *)
(* name that contain the separator.                                        *)
(***************************************************************************)
ServiceRequests ==
    [endpoint : {"browse"}, url : Urls, method : {"GET"}, post_data : Bodies,
     browser_name : BrowserNames, cookiebanner : {FALSE}]

Next ==
    \/ Tick
    \/ Finish
    \/ \E r \in ServiceRequests : BrowseReceive(r)
    \/ BrowseLookup
    \/ BrowseHit
    \/ BrowseSession
    \/ \E ok \in BOOLEAN : BrowseMeta(ok, PyStr("a description"))
    \/ Cardinality(emitted) < MaxServiceEvents /\ OnRequest(1, {})
    \/ Cardinality(emitted) < MaxServiceEvents /\ OnConsole(TRUE)

Spec == Init /\ [][Next]_vars

(***************************************************************************)
(* One session: a single /browse request on an empty cache, with every     *)
(* outcome of every call and the page events, where none or all of the     *)
(* captures of a listener fail.                                            *)
(***************************************************************************)
SomeFails(captures) == {{}, captures}

NextSession ==
    \/ \E r \in BrowseRequests : served = 0 /\ BrowseReceive(r)
    \/ BrowseLookup
    \/ BrowseSession
    \/ \E ok1, ok2 \in BOOLEAN : BrowseHideCookieBanners(ok1, ok2)
    \/ \E ok \in BOOLEAN, c \in MetaContents : BrowseMeta(ok, c)
    \/ \E i \in ReqIds, f \in SomeFails(RequestCaptures) :
           Cardinality(emitted) < MaxEvents /\ OnRequest(i, f)
    \/ \E i \in ReqIds, f \in SomeFails(ResponseCaptures) :
           Cardinality(emitted) < MaxEvents /\ OnResponse(i, "text/html", f)
    \/ \E ok \in BOOLEAN : Cardinality(emitted) < MaxEvents /\ OnConsole(ok)
    \/ \E ok \in BOOLEAN : Cardinality(emitted) < MaxEvents /\ OnPageError(ok)

SpecSession == Init /\ [][NextSession]_vars

(***************************************************************************)
(* The listeners: a /browse session whose page is loading (goto has been   *)
(* invoked and has not returned), the engine raising the events of the     *)
(* redirect chain and log lines; in each listener no capture, any single   *)
(* capture or every capture raises.                                        *)
(***************************************************************************)
FewFails(captures) == {{}, captures} \cup {{c} : c \in captures}

LoadingRequest ==
    [endpoint |-> "browse", url |-> "u", method |-> "GET", post_data |-> PyNone,
     browser_name |-> "chromium", cookiebanner |-> FALSE]

InitListeners ==
    /\ variant = "app"
    /\ InitOpen
    /\ InitAlone
    /\ InitKeys
    /\ now = 0
    /\ ticks = 0
    /\ cache = EmptyCache
    /\ served = 0
    /\ req = LoadingRequest
    /\ pc = "b_navigating"
    /\ cache_key = BrowseKey("u", "GET", PyNone, "chromium")
    /\ playwright = "running"
    /\ browser = "open"
    /\ context = "open"
    /\ page = "open"
    /\ registered = BrowseListeners
    /\ nav = "GET"
    /\ request_uuid_map = [i \in {} |-> PyNone]
    /\ emitted = {}
    /\ network_data = <<>>
    /\ logs = <<>>
    /\ redirects = <<>>
    /\ title = PyNone
    /\ meta_description = PyNone
    /\ captured = {}
    /\ faults = {}
    /\ launches = 1
    /\ cache_reads = 1
    /\ resp = NoResp

NextListeners ==
    \/ \E i \in ReqIds, f \in FewFails(RequestCaptures) : OnRequest(i, f)
    \/ \E i \in ReqIds, ct \in ContentTypes, f \in FewFails(ResponseCaptures) :
           OnResponse(i, ct, f)
    \/ \E ok \in BOOLEAN : Cardinality(emitted) < MaxLogLines /\ OnConsole(ok)
    \/ \E ok \in BOOLEAN : Cardinality(emitted) < MaxLogLines /\ OnPageError(ok)

SpecListeners == InitListeners /\ [][NextListeners]_vars

(***************************************************************************)
(* Both programs over their caches: the service of app.py or the one of    *)
(* main.py serves /browse requests one after the other, the clock running. *)
(***************************************************************************)
CacheRequests ==
    [endpoint : {"browse"}, url : Urls, method : {"GET"}, post_data : {PyNone},
     browser_name : {"chromium", "firefox"}, cookiebanner : {FALSE}]

InitVariants ==
    variant \in {"app", "main"} /\ InitOpen /\ InitAlone /\ InitCommon /\ InitKeys

NextVariants ==
    \/ Tick
    \/ Finish
    \/ \E r \in CacheRequests : variant = "app" /\ BrowseReceive(r)
    \/ BrowseLookup
    \/ BrowseHit
    \/ BrowseSession
    \/ \E ok \in BOOLEAN : BrowseMeta(ok, PyStr("a description"))
    \/ variant = "app" /\ Cardinality(emitted) < MaxServiceEvents /\ OnRequest(1, {})
    \/ \E r \in MainRequests : variant = "main" /\ MainReceive(r)
    \/ MainLookup
    \/ MainSession
    \/ variant = "main" /\ Cardinality(emitted) < MaxServiceEvents /\ MainOnRequest(1)
    \/ \E ok, body_ok \in BOOLEAN :
           variant = "main" /\ MainOnResponse(1, "text/html", ok, body_ok)
    \/ variant = "main" /\ Cardinality(emitted) < MaxServiceEvents /\ OnConsole(TRUE)

SpecVariants == InitVariants /\ [][NextVariants]_vars

(***************************************************************************)
(* GET /screenshot of app.py.  No call of the handler is guarded: an       *)
(* exception leaves it at once, and only the async with block is left in   *)
(* order.                                                                  *)
(***************************************************************************)
ThumbnailSizes == {450, 100}
Qualities == {85}

ScreenshotRequests ==
    [endpoint : {"screenshot"}, url : Urls, full_page : BOOLEAN, live : BOOLEAN,
     thumbnail_size : ThumbnailSizes, quality : Qualities]

\* A request arrives; line 444 computes its cache key.
ShotReceive(r) ==
    /\ pc = "idle"
    /\ AuthDecision("screenshot") = "pass"
    /\ served < MaxRequests
    /\ req' = r
    /\ cache_key' = ScreenshotKey(r.url, r.full_page)
    /\ pc' = "s_lookup"
    /\ UNCHANGED <<fixed, files, other, clock, cache, served, handles, session, faults,
                   launches, cache_reads, resp>>

\* ShotLookup without the test of live.
ShotLookupAlways ==
    /\ pc = "s_lookup"
    /\ cache_reads' = cache_reads + 1
    /\ IF CacheContains(cache, cache_key, now)
       THEN /\ pc' = "s_hit"
            /\ UNCHANGED playwright
       ELSE /\ pc' = "s_launch"
            /\ playwright' = "running"
    /\ UNCHANGED <<fixed, files, other, clock, cache, served, req, cache_key, browser, context,
                   page, session, faults, launches, resp>>

\* if not live and cache_key in cache: with live the cache is not asked.
ShotLookup ==
    /\ pc = "s_lookup"
    /\ IF req.live
       THEN /\ pc' = "s_launch"
            /\ playwright' = "running"
            /\ UNCHANGED cache_reads
       ELSE /\ cache_reads' = cache_reads + 1
            /\ IF CacheContains(cache, cache_key, now)
               THEN /\ pc' = "s_hit"
                    /\ UNCHANGED playwright
               ELSE /\ pc' = "s_launch"
                    /\ playwright' = "running"
    /\ UNCHANGED <<fixed, files, other, clock, cache, served, req, cache_key, browser, context,
                   page, session, faults, launches, resp>>

\* return JSONResponse(content=cache[cache_key])
ShotHit ==
    /\ pc = "s_hit"
    /\ cache_reads' = cache_reads + 1
    /\ IF CacheContains(cache, cache_key, now)
       THEN Respond([status |-> 200, kind |-> "images",
                     content |-> cache[cache_key].value])
       ELSE Respond(InternalError)
    /\ UNCHANGED <<fixed, files, other, clock, cache, served, req, cache_key, browser, context,
                   page, session, faults, launches>>

\* One awaited call of the handler: it returns and the handler goes on, or
\* it raises and the request ends in a 500.
ShotCall(ok, fault, next) ==
    IF ok
    THEN /\ pc' = next
         /\ UNCHANGED <<playwright, resp, faults>>
    ELSE /\ Respond(InternalError)
         /\ faults' = faults \cup {fault}

\* browser = await p.chromium.launch(headless=True)
ShotLaunch(ok) ==
    /\ pc = "s_launch"
    /\ ShotCall(ok, "launch", "s_page")
    /\ browser' = IF ok THEN "open" ELSE browser
    /\ launches' = IF ok THEN launches + 1 ELSE launches
    /\ UNCHANGED <<fixed, files, other, clock, cache, served, req, cache_key, context, page,
                   session, cache_reads>>

\* page = await browser.new_page(): the page comes with a context of its own.
ShotNewPage(ok) ==
    /\ pc = "s_page"
    /\ ShotCall(ok, "new_page", "s_goto")
    /\ context' = IF ok THEN "open" ELSE context
    /\ page' = IF ok THEN "open" ELSE page
    /\ UNCHANGED <<fixed, files, other, clock, cache, served, req, cache_key, browser, session,
                   launches, cache_reads>>

\* await page.goto(url, wait_until="networkidle")
ShotGoto(outcome) ==
    /\ pc = "s_goto"
    /\ ShotCall(outcome = "ok", "goto_" \o outcome, "s_shot")
    /\ nav' = "GET"
    /\ UNCHANGED <<fixed, files, other, clock, cache, served, req, cache_key, browser, context,
                   page, registered, request_uuid_map, emitted, network_data, logs,
                   redirects, title, meta_description, captured, launches,
                   cache_reads>>

\* screenshot = await page.screenshot(full_page=full_page)
ShotScreenshot(ok) ==
    /\ pc = "s_shot"
    /\ ShotCall(ok, "screenshot", "s_close")
    /\ captured' = IF ok THEN captured \cup {"screenshot"} ELSE captured
    /\ UNCHANGED <<fixed, files, other, clock, cache, served, req, cache_key, browser, context,
                   page, registered, nav, request_uuid_map, emitted, network_data,
                   logs, redirects, title, meta_description, launches, cache_reads>>

\* await browser.close()
ShotClose(ok) ==
    /\ pc = "s_close"
    /\ ShotCall(ok, "browser_close", "s_images")
    /\ browser' = IF ok THEN "closed" ELSE browser
    /\ context' = IF ok THEN "closed" ELSE context
    /\ page' = IF ok THEN "closed" ELSE page
    /\ UNCHANGED <<fixed, files, other, clock, cache, served, req, cache_key, session, launches,
                   cache_reads>>

\* optimize_image and create_thumbnail on the screenshot, and the end of the
\* async with block.
ShotImages(ok) ==
    /\ pc = "s_images"
    /\ IF ok
       THEN /\ pc' = "s_store"
            /\ playwright' = "stopped"
            /\ captured' = captured \cup {"images"}
            /\ UNCHANGED <<resp, faults>>
       ELSE /\ Respond(InternalError)
            /\ faults' = faults \cup {"image"}
            /\ UNCHANGED captured
    /\ UNCHANGED <<fixed, files, other, clock, cache, served, req, cache_key, browser, context,
                   page, registered, nav, request_uuid_map, emitted, network_data,
                   logs, redirects, title, meta_description, launches, cache_reads>>

\* images, lines 461 to 465: what was computed, and with which parameters.
Images(r) ==
    [url |-> r.url,
     screenshot |-> <<"jpeg", r.full_page, r.quality>>,
     thumbnail |-> <<"jpeg", r.full_page, r.thumbnail_size>>]

\* if not live: cache.set(...), then the response.
ShotStore ==
    /\ pc = "s_store"
    /\ cache' = IF req.live THEN cache
                ELSE CacheSet(cache, cache_key, Images(req), now, Ttl)
    /\ Respond([status |-> 200, kind |-> "images", content |-> Images(req)])
    /\ UNCHANGED <<fixed, files, other, clock, served, req, cache_key, browser, context, page,
                   session, faults, launches, cache_reads>>

NextShot ==
    \/ Tick
    \/ Finish
    \/ \E r \in ScreenshotRequests : ShotReceive(r)
    \/ ShotLookup
    \/ ShotHit
    \/ \E ok \in BOOLEAN : ShotLaunch(ok)
    \/ \E ok \in BOOLEAN : ShotNewPage(ok)
    \/ \E o \in NavigationOutcomes : ShotGoto(o)
    \/ \E ok \in BOOLEAN : ShotScreenshot(ok)
    \/ \E ok \in BOOLEAN : ShotClose(ok)
    \/ \E ok \in BOOLEAN : ShotImages(ok)
    \/ ShotStore

SpecShot == Init /\ [][NextShot]_vars

(***************************************************************************)
(* The HTML endpoints of app.py.  /minimize and /extract_text keep their   *)
(* results in the cache of the service, both under the md5 of the html;    *)
(* /reader and /markdown compute their answer on every call.               *)
(***************************************************************************)
Htmls == {"<p>a</p><!--c-->", "<p>b</p>"}

HtmlEndpoints == {"minimize", "extract_text"}

PlainEndpoints == {"reader", "markdown"}

\* The form field html is there or missing.
HtmlRequests ==
    [endpoint : HtmlEndpoints \cup PlainEndpoints,
     html : {PyNone} \cup {PyStr(h) : h \in Htmls}]

\* The part of str after the first occurrence of close, "" if there is none.
RECURSIVE After(_, _)
After(str, close) ==
    IF str = "" THEN ""
    ELSE IF StartsWith(str, close) THEN SubSeq(str, Len(close) + 1, Len(str))
    ELSE After(SubSeq(str, 2, Len(str)), close)

\* str without its spans from open to close.
RECURSIVE DropSpans(_, _, _)
DropSpans(str, open, close) ==
    IF str = "" THEN ""
    ELSE IF StartsWith(str, open) THEN DropSpans(After(str, close), open, close)
    ELSE SubSeq(str, 1, 1) \o DropSpans(SubSeq(str, 2, Len(str)), open, close)

\* htmlmin.minify(html, remove_comments=True, remove_empty_space=True) on
\* markup without space between its tags: the comments go.
minify(html) == DropSpans(html, "<!--", "-->")

\* BeautifulSoup(html, "html.parser").get_text(separator=" ", strip=True) on
\* markup with one text node: tags and comments go.
get_text(html) == DropSpans(html, "<", ">")

Transform(endpoint, html) == IF endpoint = "minimize" THEN minify(html) ELSE get_text(html)

\* The body of the answer of /minimize or /extract_text around a value.
TransformBody(endpoint, val) ==
    IF endpoint = "minimize" THEN [minified_html |-> val] ELSE [text |-> val]

\* Form(...) without the field: the framework answers 422.
ValidationError == [status |-> 422, kind |-> "error", content |-> PyStr("Field required")]

\* A request to /minimize or /extract_text arrives and the key is computed.
HtmlReceive(r) ==
    /\ pc = "idle"
    /\ variant = "app"
    /\ r.endpoint \in HtmlEndpoints
    /\ AuthDecision(r.endpoint) = "pass"
    /\ served < MaxRequests
    /\ req' = r
    /\ IF r.html = PyNone
       THEN /\ Respond(ValidationError)
            /\ UNCHANGED cache_key
       ELSE /\ cache_key' = generate_cache_key(r.html.v)
            /\ pc' = "h_lookup"
            /\ UNCHANGED <<playwright, resp>>
    /\ UNCHANGED <<fixed, files, other, clock, cache, served, browser, context, page,
                   session, faults, launches, cache_reads>>

\* if cache_key in cache
HtmlLookup ==
    /\ pc = "h_lookup"
    /\ cache_reads' = cache_reads + 1
    /\ pc' = IF CacheContains(cache, cache_key, now) THEN "h_hit" ELSE "h_store"
    /\ UNCHANGED <<fixed, files, other, clock, cache, served, req, cache_key, handles, session,
                   faults, launches, resp>>

\* return JSONResponse(content={"minified_html": cache[cache_key]}), or the
\* same with "text": the value under the key, whichever endpoint stored it.
HtmlHit ==
    /\ pc = "h_hit"
    /\ cache_reads' = cache_reads + 1
    /\ IF CacheContains(cache, cache_key, now)
       THEN Respond([status |-> 200, kind |-> "transform",
                     content |-> TransformBody(req.endpoint, cache[cache_key].value)])
       ELSE Respond(InternalError)
    /\ UNCHANGED <<fixed, files, other, clock, cache, served, req, cache_key, browser, context,
                   page, session, faults, launches>>

\* The transform, cache.set and the answer.
HtmlStore ==
    /\ pc = "h_store"
    /\ cache' = CacheSet(cache, cache_key, Transform(req.endpoint, req.html.v), now, Ttl)
    /\ Respond([status |-> 200, kind |-> "transform",
                content |-> TransformBody(req.endpoint, Transform(req.endpoint, req.html.v))])
    /\ UNCHANGED <<fixed, files, other, clock, served, req, cache_key, browser, context, page,
                   session, faults, launches, cache_reads>>

\* Document(html).summary() and .title(), html2text's handle(html): the
\* answers are functions of the html.
Readable(endpoint, html) ==
    IF endpoint = "reader"
    THEN [title |-> <<"title", html>>, content |-> <<"summary", html>>]
    ELSE [markdown |-> <<"markdown", html>>]

\* /reader and /markdown: neither declares the auth dependency, and neither
\* touches the cache.
PlainTransform(r) ==
    /\ pc = "idle"
    /\ variant = "app"
    /\ r.endpoint \in PlainEndpoints
    /\ AuthDecision(r.endpoint) = "pass"
    /\ served < MaxRequests
    /\ req' = r
    /\ Respond(IF r.html = PyNone THEN ValidationError
               ELSE IF ~Truthy(r.html)
                    THEN [status |-> 400, kind |-> "error",
                          content |-> PyStr("No HTML content provided")]
               ELSE [status |-> 200, kind |-> "transform",
                     content |-> Readable(r.endpoint, r.html.v)])
    /\ UNCHANGED <<fixed, files, other, clock, cache, served, cache_key, browser, context,
                   page, session, faults, launches, cache_reads>>

(***************************************************************************)
(* GET /video of app.py.  The handler declares no auth dependency, guards  *)
(* only goto, and answers with the file the engine recorded.               *)
(***************************************************************************)
VideoRequests == [endpoint : {"video"}, url : Urls, browser_name : BrowserNames]

VideoReceive(r) ==
    /\ pc = "idle"
    /\ variant = "app"
    /\ AuthDecision("video") = "pass"
    /\ served < MaxRequests
    /\ req' = r
    /\ pc' = "v_resolve"
    /\ UNCHANGED <<fixed, files, other, clock, cache, served, cache_key, handles, session,
                   faults, launches, cache_reads, resp>>

\* async with async_playwright() as p, and getattr(p, browser_name, None)
VideoResolve ==
    /\ pc = "v_resolve"
    /\ IF BrowserType(req.browser_name) = "None"
       THEN /\ resp' = Unsupported(req.browser_name)
            /\ pc' = "done"
            /\ playwright' = "stopped"
       ELSE /\ pc' = "v_launch"
            /\ playwright' = "running"
            /\ resp' = resp
    /\ UNCHANGED <<fixed, files, other, clock, cache, served, req, cache_key, browser, context,
                   page, session, faults, launches, cache_reads>>

\* browser = await browser_type.launch(headless=True); an attribute of the
\* playwright object that is no engine has no launch.
VideoLaunch(ok) ==
    /\ pc = "v_launch"
    /\ ok => BrowserType(req.browser_name) = "engine"
    /\ ShotCall(ok, "launch", "v_context")
    /\ browser' = IF ok THEN "open" ELSE browser
    /\ launches' = IF ok THEN launches + 1 ELSE launches
    /\ UNCHANGED <<fixed, files, other, clock, cache, served, req, cache_key, context, page,
                   session, cache_reads>>

\* context = await browser.new_context(record_video_dir=video_dir, ...)
VideoNewContext(ok) ==
    /\ pc = "v_context"
    /\ ShotCall(ok, "new_context", "v_page")
    /\ context' = IF ok THEN "open" ELSE context
    /\ UNCHANGED <<fixed, files, other, clock, cache, served, req, cache_key, browser, page,
                   session, launches, cache_reads>>

\* page = await context.new_page(): the recording starts.
VideoNewPage(ok) ==
    /\ pc = "v_page"
    /\ ShotCall(ok, "new_page", "v_goto")
    /\ page' = IF ok THEN "open" ELSE page
    /\ disk' = IF ok THEN disk \cup {VideoFile} ELSE disk
    /\ UNCHANGED <<fixed, downloaded_files, other, clock, cache, served, req, cache_key,
                   browser, context, session, launches, cache_reads>>

\* await page.goto(url, wait_until="networkidle") in its try: an exception
\* becomes HTTPException(500), raised with the browser open.
VideoGoto(outcome) ==
    /\ pc = "v_goto"
    /\ nav' = "GET"
    /\ IF outcome = "ok"
       THEN /\ pc' = "v_closecontext"
            /\ UNCHANGED <<playwright, resp, faults>>
       ELSE /\ Respond([status |-> 500, kind |-> "error",
                        content |-> PyStr("Error navigating to the page: " \o outcome)])
            /\ faults' = faults \cup {"goto_" \o outcome}
    /\ UNCHANGED <<fixed, files, other, clock, cache, served, req, cache_key, browser, context,
                   page, registered, request_uuid_map, emitted, network_data, logs,
                   redirects, title, meta_description, captured, launches,
                   cache_reads>>

\* await context.close(): the recording is complete.
VideoCloseContext(ok) ==
    /\ pc = "v_closecontext"
    /\ ShotCall(ok, "context_close", "v_path")
    /\ context' = IF ok THEN "closed" ELSE context
    /\ page' = IF ok THEN "closed" ELSE page
    /\ UNCHANGED <<fixed, files, other, clock, cache, served, req, cache_key, browser, session,
                   launches, cache_reads>>

\* video_path = await page.video.path()
VideoPath(ok) ==
    /\ pc = "v_path"
    /\ ShotCall(ok, "video", "v_closebrowser")
    /\ captured' = IF ok THEN captured \cup {"video"} ELSE captured
    /\ UNCHANGED <<fixed, files, other, clock, cache, served, req, cache_key, browser, context,
                   page, registered, nav, request_uuid_map, emitted, network_data,
                   logs, redirects, title, meta_description, launches, cache_reads>>

\* await browser.close() and return FileResponse(video_path, ...): the file
\* is sent from where the engine wrote it.
VideoCloseBrowser(ok) ==
    /\ pc = "v_closebrowser"
    /\ IF ok
       THEN /\ Respond([status |-> 200, kind |-> "file", content |-> VideoFile])
            /\ browser' = "closed"
            /\ UNCHANGED faults
       ELSE /\ Respond(InternalError)
            /\ faults' = faults \cup {"browser_close"}
            /\ UNCHANGED browser
    /\ UNCHANGED <<fixed, files, other, clock, cache, served, req, cache_key, context, page,
                   session, launches, cache_reads>>

VideoSession ==
    \/ VideoResolve
    \/ \E ok \in BOOLEAN : VideoLaunch(ok)
    \/ \E ok \in BOOLEAN : VideoNewContext(ok)
    \/ \E ok \in BOOLEAN : VideoNewPage(ok)
    \/ \E o \in NavigationOutcomes : VideoGoto(o)
    \/ \E ok \in BOOLEAN : VideoCloseContext(ok)
    \/ \E ok \in BOOLEAN : VideoPath(ok)
    \/ \E ok \in BOOLEAN : VideoCloseBrowser(ok)

(***************************************************************************)
(* GET /screenshot of main.py: the whole session runs in one try, and      *)
(* nothing is cached.                                                      *)
(***************************************************************************)
MainShotRequests == [endpoint : {"screenshot"}, url : {PyNone, PyStr("u")}]

MainScreenshotter(r, ok) ==
    /\ pc = "idle"
    /\ variant = "main"
    /\ AuthDecision("screenshot") = "pass"
    /\ served < MaxRequests
    /\ req' = r
    /\ Respond(IF ~Truthy(r.url) THEN [status |-> 400, kind |-> "error",
                                       content |-> PyStr("URL is required")]
               ELSE IF ok THEN [status |-> 200, kind |-> "screenshot", content |-> r.url]
               ELSE [status |-> 500, kind |-> "error", content |-> PyStr("str(e)")])
    /\ launches' = IF Truthy(r.url) /\ ok THEN launches + 1 ELSE launches
    /\ UNCHANGED <<fixed, files, other, clock, cache, served, cache_key, browser, context,
                   page, session, faults, cache_reads>>

(***************************************************************************)
(* The service behind its secret: app.py or main.py, with or without a     *)
(* secret, and a client that sends one Authorization header; one request   *)
(* to any endpoint, with every outcome of every call.                      *)
(***************************************************************************)
Secret == "s3"

\* No header, another scheme, the secret, another token, and the secret
\* with a word after it.
Headers ==
    {PyNone, PyStr("Basic " \o Secret), PyStr("Bearer " \o Secret), PyStr("Bearer nope"),
     PyStr("Bearer " \o Secret \o " x")}

Endpoints ==
    IF variant = "main" THEN {"browse", "screenshot"}
    ELSE {"browse", "screenshot", "video"} \cup HtmlEndpoints \cup PlainEndpoints

InitService ==
    /\ variant \in {"app", "main"}
    /\ API_KEY \in {"none", Secret}
    /\ authorization \in Headers
    /\ InitAlone
    /\ InitCommon
    /\ InitKeys

NextService ==
    \/ Finish
    \/ \E e \in Endpoints : served = 0 /\ Reject(e)
    \/ \E r \in ServiceRequests : variant = "app" /\ served = 0 /\ BrowseReceive(r)
    \/ BrowseLookup
    \/ BrowseSession
    \/ \E ok \in BOOLEAN : BrowseMeta(ok, PyStr("a description"))
    \/ \E r \in ScreenshotRequests :
           variant = "app" /\ served = 0 /\ ~r.full_page /\ r.thumbnail_size = 450
               /\ ShotReceive(r)
    \/ ShotLookup
    \/ \E ok \in BOOLEAN : ShotLaunch(ok)
    \/ \E ok \in BOOLEAN : ShotNewPage(ok)
    \/ \E o \in NavigationOutcomes : ShotGoto(o)
    \/ \E ok \in BOOLEAN : ShotScreenshot(ok)
    \/ \E ok \in BOOLEAN : ShotClose(ok)
    \/ \E ok \in BOOLEAN : ShotImages(ok)
    \/ ShotStore
    \/ \E r \in VideoRequests : served = 0 /\ VideoReceive(r)
    \/ VideoSession
    \/ \E r \in HtmlRequests : served = 0 /\ HtmlReceive(r)
    \/ HtmlLookup
    \/ HtmlStore
    \/ \E r \in HtmlRequests : served = 0 /\ PlainTransform(r)
    \/ \E r \in MainRequests : variant = "main" /\ served = 0 /\ MainReceive(r)
    \/ MainLookup
    \/ MainSession
    \/ \E r \in MainShotRequests, ok \in BOOLEAN : served = 0 /\ MainScreenshotter(r, ok)

SpecService == InitService /\ [][NextService]_vars

(***************************************************************************)
(* The HTML endpoints of app.py serving requests one after the other over  *)
(* the cache, the clock running.                                           *)
(***************************************************************************)
NextHtml ==
    \/ Tick
    \/ Finish
    \/ \E r \in HtmlRequests : HtmlReceive(r)
    \/ HtmlLookup
    \/ HtmlHit
    \/ HtmlStore
    \/ \E r \in HtmlRequests : PlainTransform(r)

SpecHtml == Init /\ [][NextHtml]_vars

(***************************************************************************)
(* The listeners of app.py as the event loop runs them.  log_request and   *)
(* log_response are coroutines: the emitter starts one task per event, in  *)
(* the order of the events; a task runs to its first await at once (the    *)
(* uuid is assigned there), is suspended in its awaits, and appends its    *)
(* entry when the last of them is answered.  Nothing orders the answers of *)
(* one task against those of another, and the handler waits for no task.   *)
(***************************************************************************)
MaxPending == 2

\* The listener of the event has appended its entry.
Logged(kind, i) ==
    \E k \in DOMAIN network_data :
        network_data[k].network = kind /\ network_data[k].url = Request(i).url

\* The listeners that are suspended.
Pending == {e \in emitted : e[1] \in {"request", "response"} /\ ~Logged(e[1], e[2])}

\* The handler is suspended in an await, so that the loop runs other tasks.
ListenerPcs == AwaitingPcs \cup {"b_closebrowser", "b_video"}

\* A capture that is outstanding when the context closes raises.
Answers(captures) == IF context = "open" THEN {{}, captures} ELSE {captures}

\* The page raises the request event of request object i and the task of
\* log_request starts: lines 161 and 162.
RequestArrives(i) ==
    /\ PageLive
    /\ "request" \in registered
    /\ <<"request", i>> \notin emitted
    /\ Request(i).redirected_from # 0 => <<"response", Request(i).redirected_from>> \in emitted
    /\ emitted' = emitted \cup {<<"request", i>>}
    /\ request_uuid_map' = (i :> Uuid4(request_uuid_map)) @@ request_uuid_map
    /\ UNCHANGED <<fixed, files, other, clock, cache, served, req, pc, cache_key, handles,
                   registered, nav, network_data, logs, redirects, title,
                   meta_description, captured, faults, launches, cache_reads, resp>>

\* The awaits of the task of log_request are answered: the append of line
\* 187.
RequestLogged(i, fails) ==
    /\ pc \in ListenerPcs
    /\ <<"request", i>> \in Pending
    /\ fails \in Answers(RequestCaptures)
    /\ logs' = logs \o log_request_warnings(fails)
    /\ network_data' =
           Append(network_data, log_request_entry(Request(i), request_uuid_map[i], fails))
    /\ faults' = faults \cup {CaptureFault("request", i, c) : c \in fails}
    /\ UNCHANGED <<fixed, files, other, clock, cache, served, req, pc, cache_key, handles,
                   registered, nav, request_uuid_map, emitted, redirects, title,
                   meta_description, captured, launches, cache_reads, resp>>

\* The page raises the response event of request object i and the task of
\* log_response starts: line 210 reads the uuid, which the map holds from
\* then on.
ResponseArrives(i) ==
    /\ PageLive
    /\ "response" \in registered
    /\ <<"request", i>> \in emitted
    /\ <<"response", i>> \notin emitted
    /\ emitted' = emitted \cup {<<"response", i>>}
    /\ UNCHANGED <<fixed, files, other, clock, cache, served, req, pc, cache_key, handles,
                   registered, nav, request_uuid_map, network_data, logs, redirects,
                   title, meta_description, captured, faults, launches, cache_reads,
                   resp>>

\* The awaits of the task of log_response are answered: the appends of
\* lines 275 and 297, with no await between them.
ResponseLogged(i, content_type, fails) ==
    /\ pc \in ListenerPcs
    /\ <<"response", i>> \in Pending
    /\ fails \in Answers(ResponseCaptures)
    /\ LET response == Response(i, content_type)
           request_uuid == MapGet(request_uuid_map, i) IN
       /\ logs' = logs \o log_response_warnings(response, fails)
       /\ network_data' =
              Append(network_data, log_response_entry(response, request_uuid, fails))
       /\ redirects' = log_response_redirects(response, redirects, fails)
    /\ faults' = faults \cup {CaptureFault("response", i, c) : c \in fails}
    /\ UNCHANGED <<fixed, files, other, clock, cache, served, req, pc, cache_key, handles,
                   registered, nav, request_uuid_map, emitted, title, meta_description,
                   captured, launches, cache_reads, resp>>

(***************************************************************************)
(* A page that is loading: the events of both redirect chains, at most     *)
(* MaxPending listeners suspended at a time.                               *)
(***************************************************************************)
NextInterleave ==
    \/ \E i \in ChainIds : Cardinality(Pending) < MaxPending /\ RequestArrives(i)
    \/ \E i \in ChainIds : RequestLogged(i, {})
    \/ \E i \in ChainIds : Cardinality(Pending) < MaxPending /\ ResponseArrives(i)
    \/ \E i \in ChainIds : ResponseLogged(i, "text/html", {})

SpecInterleave == InitListeners /\ [][NextInterleave]_vars

(***************************************************************************)
(* A session from the loading page to its Snapshot: every call of the      *)
(* handler succeeds, the page raises the events of the document chain, and *)
(* the listeners are answered at any await of the handler.                 *)
(***************************************************************************)
NextSnapshot ==
    \/ \E i \in ReqIds : RequestArrives(i)
    \/ \E i \in ReqIds, f \in SomeFails(RequestCaptures) : RequestLogged(i, f)
    \/ \E i \in ReqIds : ResponseArrives(i)
    \/ \E i \in ReqIds, f \in SomeFails(ResponseCaptures) : ResponseLogged(i, "text/html", f)
    \/ BrowseGotoReturn("ok")
    \/ BrowseWaitForLoadState("ok")
    \/ BrowseMeta(TRUE, PyStr("a description"))
    \/ BrowsePerformance(TRUE)
    \/ BrowseCookies(TRUE)
    \/ BrowseScreenshot(TRUE)
    \/ BrowseCloseContext(TRUE)
    \/ BrowseCloseBrowser(TRUE)
    \/ BrowseVideo(TRUE)
    \/ BrowseStore

SpecSnapshot == InitListeners /\ [][NextSnapshot]_vars

(***************************************************************************)
(* Two sessions at once.  A second /browse request with the fingerprint of *)
(* the first is served while the first is in hand: another coroutine of    *)
(* app.py, another thread of main.py.  Of the second session the model     *)
(* keeps what it shares with the first: the cache and the disk.            *)
(***************************************************************************)
ConcurrentRequest == LoadingRequest

\* The request with the fingerprint of the second session, and a POST
\* navigation, which shares only the disk with it.
ConcurrentMainRequests ==
    {MainRequest("GET", "u", "get", PyNone, "chromium"),
     MainRequest("POST", "u", "post", PyStr("b"), "chromium")}

\* The key of the second session: that of the first.
OtherKey ==
    IF variant = "main"
    THEN main_generate_cache_key("u", "GET", PyNone, "chromium", <<>>)
    ELSE BrowseKey("u", "GET", PyNone, "chromium")

\* The file the browser of the second session downloads.
OtherFile == <<"downloads", "other">>

\* The Snapshot of the second session: a page without events.
OtherSnapshot ==
    IF variant = "main"
    THEN [redirects |-> <<>>, network_data |-> <<>>, screenshot |-> TRUE,
          downloaded_files |-> SeqOf(other.downloaded_files)]
    ELSE [redirects |-> <<>>, page_title |-> PyStr("a title"),
          meta_description |-> PyStr(NoMetaDescription), network_data |-> <<>>,
          logs |-> <<>>, cookies |-> TRUE, performance_metrics |-> TRUE,
          screenshot |-> TRUE, thumbnail |-> TRUE, downloaded_files |-> <<>>,
          video |-> TRUE]

\* The entry of the second session is visible at time t.
OtherVisible(t) ==
    IF variant = "main"
    THEN OtherKey \in DOMAIN cache /\ t - cache[OtherKey].timestamp < CACHE_EXPIRATION
    ELSE CacheContains(cache, OtherKey, t)

OtherUnchanged ==
    UNCHANGED <<fixed, downloaded_files, clock, served, req, pc, cache_key, handles, session,
                faults, launches, cache_reads, resp>>

\* The second request arrives.
OtherReceive ==
    /\ other.pc = "none"
    /\ other' = [other EXCEPT !.pc = "lookup"]
    /\ UNCHANGED <<cache, disk>>
    /\ OtherUnchanged

\* Its lookup: a hit is answered from the cache; on a miss the session
\* starts, and that of main.py makes the download directory.
OtherLookup ==
    /\ other.pc = "lookup"
    /\ IF OtherVisible(now)
       THEN /\ other' = [other EXCEPT !.pc = "done"]
            /\ UNCHANGED disk
       ELSE /\ other' = [other EXCEPT !.pc = "running"]
            /\ disk' = IF variant = "main" THEN disk \cup {DownloadsDir} ELSE disk
    /\ UNCHANGED cache
    /\ OtherUnchanged

\* The page of the second session of main.py starts a download: its browser
\* writes the file into the download directory.
OtherDownload ==
    /\ variant = "main"
    /\ other.pc = "running"
    /\ DownloadsDir \in disk
    /\ OtherFile \notin disk
    /\ disk' = disk \cup {OtherFile}
    /\ UNCHANGED <<cache, other>>
    /\ OtherUnchanged

\* The second session comes to its end: in main.py the walk over the
\* download directory and rmtree, which raises when the directory is gone.
OtherCollect ==
    /\ other.pc = "running"
    /\ IF variant = "app"
       THEN /\ other' = [other EXCEPT !.pc = "store"]
            /\ UNCHANGED disk
       ELSE IF DownloadsDir \in disk
       THEN /\ other' = [pc |-> "store", downloaded_files |-> Downloads(disk)]
            /\ disk' = disk \ (Downloads(disk) \cup {DownloadsDir})
       ELSE /\ other' = [other EXCEPT !.pc = "done"]
            /\ UNCHANGED disk
    /\ UNCHANGED cache
    /\ OtherUnchanged

\* Its store: cache.set of app.py, cache[cache_key] = {...} of main.py.
OtherStore ==
    /\ other.pc = "store"
    /\ other' = [other EXCEPT !.pc = "done"]
    /\ cache' = IF variant = "main"
                THEN MainCacheInsert(cache, OtherKey, OtherSnapshot, now)
                ELSE CacheSet(cache, OtherKey, JsonDumps(OtherSnapshot), now, Ttl)
    /\ UNCHANGED disk
    /\ OtherUnchanged

\* The page of the first session of main.py starts a download.
MainOnDownload ==
    /\ pc = "m_navigating"
    /\ DownloadsDir \in disk
    /\ <<"downloads", Mine>> \notin disk
    /\ disk' = disk \cup {<<"downloads", Mine>>}
    /\ UNCHANGED <<fixed, downloaded_files, other, clock, cache, served, req, pc, cache_key,
                   handles, session, faults, launches, cache_reads, resp>>

\* Both sessions within less than one TTL.
NextConcurrent ==
    \/ ticks + 1 < TicksPerTtl /\ Tick
    \/ variant = "app" /\ served = 0 /\ BrowseReceive(ConcurrentRequest)
    \/ BrowseLookup
    \/ BrowseHit
    \/ BrowseSession
    \/ BrowseMeta(TRUE, PyStr("a description"))
    \/ \E r \in ConcurrentMainRequests : variant = "main" /\ served = 0 /\ MainReceive(r)
    \/ MainLookup
    \/ MainSession
    \/ MainOnDownload
    \/ OtherReceive
    \/ OtherLookup
    \/ OtherDownload
    \/ OtherCollect
    \/ OtherStore

SpecConcurrent == InitVariants /\ [][NextConcurrent]_vars

(***************************************************************************)
(* The console and pageerror listeners of src/fast/app.py: the append is   *)
(* not in a try, so a failure to format the message leaves the listener as *)
(* an exception.  The lines of a loading page, in app.py and in            *)
(* src/fast/app.py.                                                        *)
(***************************************************************************)
MaxLines == 4

FastLogLine(kind, ok) ==
    /\ variant = "fast"
    /\ PageLive
    /\ emitted' = emitted \cup {<<kind, Cardinality(emitted)>>}
    /\ IF ok
       THEN /\ logs' = Append(logs, LogEntry(IF kind = "console" THEN "console_message"
                                             ELSE "javascript_error", "text"))
            /\ UNCHANGED faults
       ELSE /\ faults' = faults \cup {"listener"}
            /\ UNCHANGED logs
    /\ UNCHANGED <<fixed, files, other, clock, cache, served, req, pc, cache_key, handles,
                   registered, nav, request_uuid_map, network_data, redirects, title,
                   meta_description, captured, launches, cache_reads, resp>>

FastOnConsole(ok) == FastLogLine("console", ok)

FastOnPageError(ok) == FastLogLine("pageerror", ok)

InitLogLines ==
    /\ variant \in {"app", "fast"}
    /\ InitOpen
    /\ InitAlone
    /\ InitKeys
    /\ now = 0
    /\ ticks = 0
    /\ cache = EmptyCache
    /\ served = 0
    /\ req = LoadingRequest
    /\ pc = "b_navigating"
    /\ cache_key = BrowseKey("u", "GET", PyNone, "chromium")
    /\ playwright = "running"
    /\ browser = "open"
    /\ context = "open"
    /\ page = "open"
    /\ registered = BrowseListeners
    /\ nav = "GET"
    /\ request_uuid_map = [i \in {} |-> PyNone]
    /\ emitted = {}
    /\ network_data = <<>>
    /\ logs = <<>>
    /\ redirects = <<>>
    /\ title = PyNone
    /\ meta_description = PyNone
    /\ captured = {}
    /\ faults = {}
    /\ launches = 1
    /\ cache_reads = 1
    /\ resp = NoResp

NextLogLines ==
    \/ \E ok \in BOOLEAN :
           variant = "app" /\ Cardinality(emitted) < MaxLines /\ OnConsole(ok)
    \/ \E ok \in BOOLEAN :
           variant = "app" /\ Cardinality(emitted) < MaxLines /\ OnPageError(ok)
    \/ \E ok \in BOOLEAN : Cardinality(emitted) < MaxLines /\ FastOnConsole(ok)
    \/ \E ok \in BOOLEAN : Cardinality(emitted) < MaxLines /\ FastOnPageError(ok)

SpecLogLines == InitLogLines /\ [][NextLogLines]_vars

(***************************************************************************)
(* Downloads of app.py.  The download event starts a task of               *)
(* handle_download, which waits in download.path() until the browser has   *)
(* written the file; browse never waits for these tasks.  A task that is   *)
(* still waiting when the context closes is answered with an error.        *)
(***************************************************************************)
DownloadIds == {1, 2}

\* The temporary file the browser writes download d to.
Artifact(d) == <<"artifacts", ToString(d)>>

\* The entry handle_download appends for download d.
DownloadedFile(d) ==
    [file_name |-> "file-" \o ToString(d),
     file_content |-> B64("content-" \o ToString(d))]

\* The page raises the download event: the task starts and suspends in
\* download.path(), line 331.
DownloadArrives(d) ==
    /\ PageLive
    /\ "download" \in registered
    /\ <<"download", d>> \notin emitted
    /\ emitted' = emitted \cup {<<"download", d>>}
    /\ disk' = disk \cup {Artifact(d)}
    /\ UNCHANGED <<fixed, downloaded_files, other, clock, cache, served, req, pc, cache_key,
                   handles, registered, nav, request_uuid_map, network_data, logs,
                   redirects, title, meta_description, captured, faults, launches,
                   cache_reads, resp>>

\* download.path() is answered while the handler is suspended: with the
\* path of the complete file, and lines 332 to 338 run without an await, or,
\* once the context is closed, with an error that ends the task.
DownloadSaved(d) ==
    /\ pc \in ListenerPcs
    /\ <<"download", d>> \in emitted
    /\ <<"downloaded", d>> \notin emitted
    /\ emitted' = emitted \cup {<<"downloaded", d>>}
    /\ IF context = "open"
       THEN /\ downloaded_files' = Append(downloaded_files, DownloadedFile(d))
            /\ disk' = disk \ {Artifact(d)}
       ELSE UNCHANGED <<disk, downloaded_files>>
    /\ UNCHANGED <<fixed, other, clock, cache, served, req, pc, cache_key, handles,
                   registered, nav, request_uuid_map, network_data, logs, redirects,
                   title, meta_description, captured, faults, launches, cache_reads,
                   resp>>

\* The service of app.py answers the same request MaxRequests times; the
\* page of a session raises downloads, the events of request 1 and console
\* lines at any await of the handler.
NextDownloads ==
    \/ BrowseReceive(LoadingRequest)
    \/ BrowseLookup
    \/ BrowseHit
    \/ BrowseSession
    \/ BrowseMeta(TRUE, PyStr("a description"))
    \/ \E d \in DownloadIds : DownloadArrives(d)
    \/ \E d \in DownloadIds : DownloadSaved(d)
    \/ RequestArrives(1)
    \/ RequestLogged(1, {})
    \/ ResponseArrives(1)
    \/ ResponseLogged(1, "text/html", {})
    \/ Len(logs) < MaxLogLines /\ OnConsole(TRUE)
    \/ Finish

SpecDownloads == Init /\ [][NextDownloads]_vars

\* The steps of the handler itself.  Each is a call that the engine answers
\* or times out, after which the handler is scheduled again; the page
\* events and the answers to the download tasks may never come.
HandlerStep ==
    \/ BrowseLookup
    \/ BrowseHit
    \/ BrowseSession
    \/ BrowseMeta(TRUE, PyStr("a description"))

\* The session with its downloads and its request and response listeners.
NextLive ==
    \/ BrowseReceive(LoadingRequest)
    \/ HandlerStep
    \/ \E d \in DownloadIds : DownloadArrives(d)
    \/ \E d \in DownloadIds : DownloadSaved(d)
    \/ RequestArrives(1)
    \/ RequestLogged(1, {})
    \/ ResponseArrives(1)
    \/ ResponseLogged(1, "text/html", {})
    \/ Finish

SpecLive == Init /\ [][NextLive]_vars /\ WF_vars(HandlerStep)

(***************************************************************************)
(* The cache of main.py at its size cap: the service starts from a cache   *)
(* that earlier requests have filled up to one entry below the cap, and    *)
(* serves requests while a second session runs.                            *)
(***************************************************************************)
FillerKey(i) == main_generate_cache_key("u" \o ToString(i), "GET", PyNone, "chromium", <<>>)

\* n entries of earlier requests, entry i stored i seconds ago.
FilledCache(n) ==
    [k \in {FillerKey(i) : i \in 1..n} |->
        LET i == CHOOSE j \in 1..n : FillerKey(j) = k
        IN [response |-> [redirects |-> <<>>, network_data |-> <<>>, screenshot |-> TRUE,
                          downloaded_files |-> <<>>],
            timestamp |-> 0 - i]]

\* Two requests with different keys.
FullCacheRequests ==
    {MainRequest("POST", "u", "post", PyStr("b"), "chromium"),
     MainRequest("GET", "u", "get", PyStr("b"), "chromium")}

InitFullCache ==
    /\ variant = "main"
    /\ InitOpen
    /\ InitAlone
    /\ InitKeys
    /\ now = 0
    /\ ticks = 0
    /\ cache = FilledCache(CACHE_MAX_SIZE - 1)
    /\ served = 0
    /\ req = NoReq
    /\ pc = "idle"
    /\ cache_key = NoKey
    /\ playwright = "none"
    /\ browser = "none"
    /\ context = "none"
    /\ page = "none"
    /\ registered = {}
    /\ nav = "none"
    /\ request_uuid_map = [i \in {} |-> PyNone]
    /\ emitted = {}
    /\ network_data = <<>>
    /\ logs = <<>>
    /\ redirects = <<>>
    /\ title = PyNone
    /\ meta_description = PyNone
    /\ captured = {}
    /\ faults = {}
    /\ launches = 0
    /\ cache_reads = 0
    /\ resp = NoResp

NextFullCache ==
    \/ Tick
    \/ Finish
    \/ \E r \in FullCacheRequests : MainReceive(r)
    \/ MainLookup
    \/ MainSession
    \/ OtherReceive
    \/ OtherLookup
    \/ OtherCollect
    \/ OtherStore

SpecFullCache == InitFullCache /\ [][NextFullCache]_vars

(***************************************************************************)
(* The fingerprint as a function: two request tuples and their keys.       *)
(***************************************************************************)
KeyTuples ==
    [url : Urls, method : Methods, post_data : Bodies, browser_name : BrowserNames]

InitFingerprint ==
    /\ variant = "app"
    /\ InitOpen
    /\ InitAlone
    /\ InitCommon
    /\ key_in \in KeyTuples \X KeyTuples
    /\ key_out = NoKeys

\* Line 123 of app.py on each of the two tuples.
Fingerprint ==
    /\ key_in # NoKeys
    /\ key_out = NoKeys
    /\ key_out' = [i \in {1, 2} |->
                      BrowseKey(key_in[i].url, key_in[i].method, key_in[i].post_data,
                                key_in[i].browser_name)]
    /\ UNCHANGED <<variant, API_KEY, authorization, key_in, files, other, clock, cache,
                   served, req, pc, cache_key, handles, session, faults, launches,
                   cache_reads, resp>>

NextFingerprint == Fingerprint

SpecFingerprint == InitFingerprint /\ [][NextFingerprint]_vars

(***************************************************************************)
(* Properties.                                                             *)
(***************************************************************************)
ReturnsSnapshot == resp.status = 200 /\ resp.kind = "snapshot"

Acquired == page # "none"

InLogs(entry) == \E i \in DOMAIN logs : logs[i] = entry

\* The failures browse lets through: it awaits these calls outside any try,
\* or in the try that catches the timeout alone.
UnguardedFaults ==
    {"goto_error", "idle_error", "performance", "cookies", "screenshot",
     "context_close", "browser_close", "video"}

TimedOut == faults \cap {"goto_timeout", "idle_timeout"} # {}

CaptureFields ==
    {"headers", "request_headers", "response_headers", "response_body", "cookies",
     "security", "server"}

MarkerFields(entry) ==
    {f \in DOMAIN entry \cap CaptureFields :
        entry[f] \in {PyStr(Unavailable), PyStr(BodyUnavailable)}}

\* The field of the entry that a capture fills.
FieldOf(kind, c) ==
    IF c = "body" THEN "response_body"
    ELSE IF c = "request_headers" /\ kind = "request" THEN "headers"
    ELSE c

Last(seq) == seq[Len(seq)]

\* The request object of an entry.
EntryRequest(entry) == CHOOSE i \in ReqIds : Request(i).url = entry.url

\* The entry a listener appends when no capture raises.
CleanEntries(entry) ==
    IF entry.network = "request"
    THEN {log_request_entry(Request(EntryRequest(entry)), entry.uuid, {})}
    ELSE {log_response_entry(Response(EntryRequest(entry), ct), entry.uuid, {}) :
              ct \in ContentTypes}

\* entry is clean but for field f (and, with the body, its size).
CleanBut(entry, f) ==
    \E clean \in CleanEntries(entry) :
        \A g \in DOMAIN entry :
            g \notin {f} \cup (IF f = "response_body" THEN {"response_size"} ELSE {})
                => entry[g] = clean[g]

\* C2 as stated: when exactly one capture of a request or response listener
\* raises, the entry is still appended, only the field of that capture holds
\* the marker, every other field has its value, and exactly one warning is
\* logged.
C2_SingleFailureIsolated ==
    [][\A kind \in {"request", "response"}, i \in ReqIds, c \in ResponseCaptures :
          faults' \ faults = {CaptureFault(kind, i, c)} =>
              /\ Len(network_data') = Len(network_data) + 1
              /\ MarkerFields(Last(network_data')) = {FieldOf(kind, c)}
              /\ CleanBut(Last(network_data'), FieldOf(kind, c))
              /\ Len(logs') = Len(logs) + 1
              /\ DOMAIN Last(logs') = {"warning"}]_vars

\* C6 as stated: once page.goto has been invoked the request, response,
\* console, pageerror and download listeners are all registered, and every
\* event the page has raised had a listener.
C6_AllListenersBeforeNavigate ==
    /\ nav # "none" => Listeners \subseteq registered
    /\ \A e \in emitted : e[1] \in registered

\* The time at which the entry of key k was stored, and the snapshot in it.
InsertedAt(k) == IF variant = "main" THEN cache[k].timestamp ELSE cache[k].store_time
Stored(k) == IF variant = "main" THEN cache[k].response ELSE JsonLoads(cache[k].value)

\* The handler looks its key up: the membership test of app.py, the first
\* half of the wrapper of main.py.
LookupStep == pc \in {"b_lookup", "m_lookup"} /\ pc' # pc
\* The lookup found the entry.
LookupHit == pc' = "b_hit" \/ (pc = "m_lookup" /\ pc' = "done")
\* The entry is returned to the caller.
ReturnsStored ==
    \/ pc = "m_lookup" /\ pc' = "done"
    \/ pc = "b_hit" /\ pc' = "done" /\ resp'.status = 200

\* C8 as stated: a lookup of a stored key finds the snapshot as long as
\* now <= insertedAt + ttl and finds nothing once now > insertedAt + ttl, and
\* an entry that is returned to the caller is the stored one and not expired.
C8_RoundTripInclusive ==
    [][/\ LookupStep /\ cache_key \in DOMAIN cache =>
             (LookupHit <=> now <= InsertedAt(cache_key) + Ttl)
       /\ ReturnsStored =>
             /\ resp'.content = Stored(cache_key)
             /\ now <= InsertedAt(cache_key) + Ttl]_vars

\* C8, amended: a lookup of a key whose entry is in the store finds the
\* snapshot exactly while now < insertedAt + ttl, so from now = insertedAt +
\* ttl on the key is absent; an entry that is returned to the caller is the
\* stored one, read before insertedAt + ttl.
C8_RoundTrip ==
    [][/\ LookupStep /\ cache_key \in DOMAIN cache =>
             (LookupHit <=> now < InsertedAt(cache_key) + Ttl)
       /\ LookupStep /\ cache_key \notin DOMAIN cache => ~LookupHit
       /\ ReturnsStored =>
             /\ cache_key \in DOMAIN cache
             /\ resp'.content = Stored(cache_key)
             /\ now < InsertedAt(cache_key) + Ttl]_vars

\* The second request looks its key up exactly ttl after the entry was
\* stored and misses.
C8_Witness ==
    /\ variant = "app"
    /\ pc = "b_resolve"
    /\ cache_key \in DOMAIN cache
    /\ now = cache[cache_key].store_time + Ttl

\* The key of the request being served.
KeyOf(r) ==
    IF variant = "main"
    THEN main_generate_cache_key(r.url, r.method, r.post_data, r.browser_name,
                                 r.extensions)
    ELSE BrowseKey(r.url, r.method, r.post_data, r.browser_name)

\* C9: a response served from the cache is the stored snapshot and no
\* browser was launched for it; a session that ends with a snapshot has
\* stored it under the key of its request, with the time of the store, when
\* the response goes out; and a request whose key has an unexpired entry at
\* its lookup is a hit.
C9_HitWithoutLaunchMissStores ==
    /\ [](pc \in {"b_lookup", "b_hit", "m_lookup"} =>
             launches = 0 /\ browser = "none" /\ cache_key = KeyOf(req))
    /\ [](pc = "done" /\ resp.status = 200 /\ launches = 0 =>
             /\ browser = "none"
             /\ cache_key \in DOMAIN cache
             /\ resp.content = Stored(cache_key))
    /\ [](pc = "done" /\ resp.status = 200 /\ launches > 0 =>
             /\ cache_key \in DOMAIN cache
             /\ resp.content = Stored(cache_key)
             /\ InsertedAt(cache_key) = now)
    /\ [][LookupStep /\ KeyOf(req) \in DOMAIN cache
              /\ now < InsertedAt(KeyOf(req)) + Ttl => LookupHit]_vars

\* The second request, identical to the first and inside the ttl, has been
\* answered from the cache.
C9_Witness ==
    /\ variant = "app"
    /\ served = 1
    /\ pc = "done"
    /\ resp.status = 200
    /\ launches = 0
    /\ now > cache[cache_key].store_time
    /\ resp.content = JsonLoads(cache[cache_key].value)


\* req is a /screenshot request with live=true.
LiveShot == req.endpoint = "screenshot" /\ req.live

\* C10: a /screenshot request with live=true makes no read of the cache,
\* neither the membership test nor the read of an entry, whatever the cache
\* holds, and no step of it changes the cache.
C10_LiveBypassesCache ==
    /\ [](LiveShot => cache_reads = 0 /\ pc # "s_hit")
    /\ [][LiveShot => cache' = cache]_vars

\* A live request has been answered with fresh images while the cache holds
\* an unexpired entry for its key, stored by a request with other parameters.
C10_Witness ==
    /\ LiveShot
    /\ pc = "done"
    /\ resp.status = 200
    /\ launches = 1
    /\ CacheContains(cache, cache_key, now)
    /\ cache[cache_key].value # resp.content

\* C3 as stated: at the end of a request no browser, context or page that the
\* request acquired is still open.
C3_NothingOpenAtEnd ==
    pc = "done" => browser # "open" /\ context # "open" /\ page # "open"

\* C4 as stated: a /browse request whose browser_name is none of the three
\* engines ends with an error response and launches no browser.
C4_UnsupportedEndsInError ==
    (pc = "done" /\ req.endpoint = "browse" /\ req.browser_name \notin Engines) =>
        resp.kind = "error" /\ launches = 0

AfterNavigationPcs ==
    {"b_meta", "b_perf", "b_cookies", "b_shot", "b_closectx", "b_closebrowser",
     "b_video", "b_store", "done"}

C7_KeyInjective ==
    key_out # NoKeys => ((key_out[1] = key_out[2]) <=> (key_in[1] = key_in[2]))

(***************************************************************************)
(* The secret.                                                             *)
(***************************************************************************)
\* The request in hand presents the secret as its bearer token.
PresentsSecret == Truthy(authorization) /\ authorization.v = "Bearer " \o API_KEY

\* The request in hand was turned down by the auth check.
Rejected == pc = "done" /\ resp.status \in {401, 403}

\* C11 as stated: when the secret is not "none", a request to any endpoint
\* that does not present a bearer token equal to the secret is rejected
\* before the endpoint does any work; none is served.
C11_NoneServedWithoutSecret ==
    (API_KEY # "none" /\ req # NoReq /\ ~PresentsSecret) => Rejected

\* What the auth check is to decide for a secret and a header.
AuthTable(api_key, header) ==
    IF api_key = "none" THEN "pass"
    ELSE IF header = PyNone THEN "401"
    ELSE IF ~StartsWith(header.v, "Bearer ") THEN "401"
    ELSE IF SubSeq(header.v, Len("Bearer ") + 1, Len(header.v)) # api_key THEN "403"
    ELSE "pass"

\* The auth check runs for the request in hand.
AuthChecked == req # NoReq /\ (variant = "main" \/ req.endpoint \in AuthEndpoints)

\* C12 as stated: with secret "none" every request passes; otherwise a
\* missing or non-Bearer header yields 401, a Bearer token different from
\* the secret yields 403, and only a token equal to the secret passes.
C12_AuthDecisionTable ==
    AuthChecked =>
        IF AuthTable(API_KEY, authorization) = "pass" THEN ~Rejected
        ELSE Rejected /\ resp.status = (IF AuthTable(API_KEY, authorization) = "401"
                                         THEN 401 ELSE 403)

(***************************************************************************)
(* Unknown browser names.                                                  *)
(***************************************************************************)
\* C20 as stated: every /browse or /video request whose browser name is none
\* of the three engines is answered with a 4xx status, never with 200 and
\* never with a 5xx.
C20_UnknownBrowserIs4xx ==
    (/\ pc = "done"
     /\ req.endpoint \in {"browse", "video"}
     /\ "browser_name" \in DOMAIN req
     /\ req.browser_name \notin Engines) =>
        resp.status \in 400..499

(***************************************************************************)
(* Temporary files.                                                        *)
(***************************************************************************)
\* C18 as stated: when a /browse or /video request ends, with success or
\* with a failure after acquisition, no video or download file written
\* during that request remains on disk.
C18_NoFileLeftBehind ==
    (pc = "done" /\ req.endpoint \in {"browse", "video"}) =>
        \A f \in disk : f[2] # Mine

(***************************************************************************)
(* The HTML transforms.                                                    *)
(***************************************************************************)
\* C19 as stated: for every html, /minimize answers with the minified html
\* and /extract_text with the extracted text of that html, whatever requests
\* came before.
C19_TransformsStateless ==
    (pc = "done" /\ req.endpoint \in HtmlEndpoints /\ req.html # PyNone) =>
        resp = [status |-> 200, kind |-> "transform",
                content |-> TransformBody(req.endpoint,
                                          Transform(req.endpoint, req.html.v))]

(***************************************************************************)
(* The listeners under the event loop.                                     *)
(***************************************************************************)
\* C13: within one session the step numbers of redirects are 1, 2, ..., n in
\* append order, however the response listeners interleave with each other
\* and with the responses that append no step.
C13_RedirectStepsCount ==
    \A k \in DOMAIN redirects : redirects[k].step = k

\* Both chains have appended their step, the image chain first although its
\* requests arrived after those of the document chain, with the response
\* listeners of requests 1 and 3, which append no step, done before.
C13_Witness ==
    /\ Len(redirects) = 2
    /\ redirects[1].to = Request(4).url
    /\ redirects[2].to = Request(2).url
    /\ request_uuid_map[2] = PyStr("uuid-2")
    /\ Logged("response", 1)
    /\ Logged("response", 3)

\* The place of an entry's request in the order of arrival: the uuids are
\* issued in that order.
ArrivalOf(entry) ==
    CHOOSE n \in 1..Cardinality(ChainIds) : entry.uuid = PyStr("uuid-" \o ToString(n))

\* C14 as stated: every response entry of the Snapshot carries a uuid that
\* is not null and is the uuid of exactly one request entry of the Snapshot.
C14_ResponseHasItsRequest ==
    (pc = "done" /\ resp.kind = "snapshot") =>
        LET entries == resp.content.network_data IN
        \A k \in DOMAIN entries :
            entries[k].network = "response" =>
                /\ entries[k].uuid # PyNone
                /\ Cardinality({j \in DOMAIN entries :
                                    /\ entries[j].network = "request"
                                    /\ entries[j].uuid = entries[k].uuid}) = 1

\* C15 as stated, for the request events: when request A arrives before
\* request B, the entry of A precedes the entry of B in network_data.
C15_AppendOrderIsArrivalOrder ==
    \A a, b \in DOMAIN network_data :
        (/\ a < b
         /\ network_data[a].network = "request"
         /\ network_data[b].network = "request") =>
            ArrivalOf(network_data[a]) < ArrivalOf(network_data[b])

(***************************************************************************)
(* Two sessions at once.                                                   *)
(***************************************************************************)
\* C16 as stated: when two sessions with the same fingerprint both write the
\* cache, the entry of the first writer stays: the second write neither
\* replaces the stored Snapshot nor moves its expiry.
C16_FirstWriterWins ==
    [][\A k \in DOMAIN cache : k \in DOMAIN cache' /\ cache'[k] = cache[k]]_vars

\* C17 as stated, for the Snapshots: the downloaded_files of the Snapshot a
\* session builds, and of the one the concurrent session builds, hold only
\* files that the browser of that session wrote.
C17_OnlyOwnFiles ==
    /\ (pc = "done" /\ launches > 0 /\ resp.kind = "snapshot"
            /\ "downloaded_files" \in DOMAIN resp.content) =>
           \A k \in DOMAIN resp.content.downloaded_files :
               resp.content.downloaded_files[k] = <<"downloads", Mine>>
    /\ other.downloaded_files \subseteq {OtherFile}

(***************************************************************************)
(* Degraded errors.                                                        *)
(***************************************************************************)
\* The degraded errors of the session so far: the navigation timeouts, the
\* failed read of title and meta description, the failed captures of the
\* listeners.
DegradedErrors ==
    faults \cap ({"goto_timeout", "idle_timeout", "meta"}
                 \cup {CaptureFault(kind, i, c) : kind \in {"request", "response"},
                           i \in ChainIds, c \in RequestCaptures \cup ResponseCaptures})

\* The entries of logs whose populated field is warning or error.
TaggedEntries == {k \in DOMAIN logs : DOMAIN logs[k] \subseteq {"warning", "error"}}

\* C21 as stated: every degraded error of a session adds an entry to logs
\* whose populated field is warning or error.
C21_DegradedErrorsTagged ==
    Cardinality(TaggedEntries) >= Cardinality(DegradedErrors)


(***************************************************************************)
(* Redirect steps.                                                         *)
(***************************************************************************)
\* The step the response of request object i is to leave in redirects: the
\* url of the request it was redirected from, its own url, the status of the
\* response.
IsStepOf(step, i, content_type) ==
    /\ step.from = Request(Request(i).redirected_from).url
    /\ step.to = Request(i).url
    /\ step.status_code = Response(i, content_type).status

\* C22 as stated: a response whose request has a redirected_from relation
\* appends exactly one step, with the url of that earlier request as from,
\* the url of its own request as to and its own status; any other response
\* appends none.
C22_OneStepPerRedirectedResponse ==
    [][\A i \in ChainIds :
           (/\ "response" \in registered
            /\ <<"response", i>> \notin emitted
            /\ <<"response", i>> \in emitted')
           => IF Request(i).redirected_from # 0
              THEN /\ Len(redirects') = Len(redirects) + 1
                   /\ SubSeq(redirects', 1, Len(redirects)) = redirects
                   /\ \E ct \in ContentTypes :
                          IsStepOf(redirects'[Len(redirects')], i, ct)
              ELSE redirects' = redirects]_vars


(***************************************************************************)
(* The body of a response.                                                 *)
(***************************************************************************)
\* The markers the two programs store when the body block raises.
BodyMarkers == {BodyUnavailable, "Response body unavailable (possibly a redirect)"}

\* The entries a step appends to logs.
Appended == SubSeq(logs', Len(logs) + 1, Len(logs'))

BodyWarnings ==
    {k \in DOMAIN Appended :
         Appended[k] = LogEntry("warning", "Failed to fetch response body")}

\* C23 as stated: the entry of a response holds the body as text when the
\* content type contains "text" or "json" and as base64 of the bytes
\* otherwise, the absent header included; when the body block fails it
\* holds the marker, size 0, and logs grows by one warning about the body.
C23_BodyByContentType ==
    [][\A i \in ChainIds :
           (/\ <<"response", i>> \notin emitted
            /\ <<"response", i>> \in emitted'
            /\ Len(network_data') = Len(network_data) + 1)
           => LET entry == network_data'[Len(network_data')]
                  raw == Response(i, "").body IN
              \/ /\ entry.response_headers.t = "dict"
                 /\ entry.response_body =
                        IF IsTextual(entry.response_headers.v)
                        THEN PyStr(raw) ELSE PyStr(B64(raw))
                 /\ entry.response_size = Len(raw)
                 /\ BodyWarnings = {}
              \/ /\ entry.response_body.v \in BodyMarkers
                 /\ entry.response_size = 0
                 /\ Cardinality(BodyWarnings) = 1]_vars


(***************************************************************************)
(* The kind of the navigation.                                             *)
(***************************************************************************)
\* C24 as stated: the page navigates with POST and the body exactly when
\* the method is POST and a body is present, and with a plain GET in every
\* other case.
C24_PostExactlyWithBody ==
    nav # "none"
        => (nav = "POST" <=> (req.method = "POST" /\ Truthy(req.post_data)))


(***************************************************************************)
(* The read of an entry that expires after the membership test.            *)
(***************************************************************************)
HitPcs == {"b_hit", "s_hit", "h_hit"}

\* C26 as stated: a request that found its key in the cache and reads the
\* value afterwards returns the stored value or goes on as a miss, whatever
\* time passes between the two; it never ends in an error.
C26_ExpiryBetweenTestAndReadIsMiss ==
    [][(pc \in HitPcs /\ pc' # pc)
           => ((pc' = "done" /\ resp'.status = 200)
               \/ pc' \notin HitPcs \cup {"done"})]_vars


(***************************************************************************)
(* Title and meta description.                                             *)
(***************************************************************************)
\* C29: a session whose read of title or meta description failed on a
\* playwright error goes on and its Snapshot carries the two sentinels; a
\* session whose reads succeeded carries the title read and the description
\* read, or "No Meta Description" when the attribute is empty or missing.
C29_SentinelsOrValuesRead ==
    /\ (pc = "b_perf" /\ "meta" \in faults) => resp = NoResp
    /\ (pc = "done" /\ resp.kind = "snapshot")
           => IF "meta" \in faults
              THEN /\ resp.content.page_title = PyStr(TitleUnavailable)
                   /\ resp.content.meta_description = PyStr(MetaUnavailable)
              ELSE /\ resp.content.page_title = PyStr("a title")
                   /\ resp.content.meta_description
                          \in {PyStr("a description"), PyStr(NoMetaDescription)}

\* A session whose read failed has answered with its Snapshot.
C29_Witness ==
    /\ pc = "done"
    /\ resp.kind = "snapshot"
    /\ "meta" \in faults
    /\ resp.content.page_title = PyStr(TitleUnavailable)


(***************************************************************************)
(* The console and pageerror listeners.                                    *)
(***************************************************************************)
LineEvent(kind) == \E n \in 0..MaxLines : <<kind, n>> \in emitted' \ emitted

\* C30 as stated: a console or pageerror event never raises out of its
\* listener; it appends one entry to logs, or, when the message cannot be
\* formatted, nothing, and network_data, redirects and the position of the
\* session stay as they are.
C30_LineListenersNeverRaise ==
    [][(LineEvent("console") \/ LineEvent("pageerror"))
           => /\ faults' = faults
              /\ \/ logs' = logs
                 \/ /\ Len(logs') = Len(logs) + 1
                    /\ SubSeq(logs', 1, Len(logs)) = logs
                    /\ DOMAIN logs'[Len(logs')]
                           \subseteq {"console_message", "javascript_error"}
              /\ UNCHANGED <<network_data, redirects, pc, resp>>]_vars


(***************************************************************************)
(* The order of the teardown.                                              *)
(***************************************************************************)
\* C28: in a session of /browse the context is closed only after the
\* screenshot was taken, the browser only after the context, the video file
\* is read only after both were closed, and the file is removed only once
\* it has been read and encoded.
C28_TeardownOrder ==
    (variant = "app" /\ req.endpoint = "browse")
        => /\ context = "closed" => "screenshot" \in captured
           /\ browser = "closed" => context = "closed"
           /\ "video" \in captured => (context = "closed" /\ browser = "closed")
           /\ (page # "none" /\ VideoFile \notin disk) => "video" \in captured

\* A completed session: everything closed, the video read and its file gone.
C28_Witness ==
    /\ pc = "done"
    /\ resp.kind = "snapshot"
    /\ resp.content.screenshot
    /\ resp.content.video
    /\ context = "closed"
    /\ browser = "closed"
    /\ VideoFile \notin disk


(***************************************************************************)
(* Downloads in the Snapshot.                                              *)
(***************************************************************************)
\* C27 as stated: every download whose event was raised during the session
\* is in downloaded_files of the Snapshot that is returned, exactly once and
\* with the base64 of its content, and its temporary file is gone.
C27_EveryDownloadInSnapshot ==
    (pc = "done" /\ resp.kind = "snapshot")
        => \A d \in DownloadIds :
               <<"download", d>> \in emitted
                   => /\ Cardinality({k \in DOMAIN resp.content.downloaded_files :
                                          resp.content.downloaded_files[k]
                                              = DownloadedFile(d)}) = 1
                      /\ Artifact(d) \notin disk


(***************************************************************************)
(* One Snapshot per session.                                               *)
(***************************************************************************)
\* C25: the value a session writes to the cache has the content of the
\* Snapshot it returns, which is the state of its lists at that moment; the
\* entry is written by no other step, and a later hit on the key returns the
\* content of the entry.
C25_StoredIsReturned ==
    [][/\ (pc = "b_store" /\ pc' = "done")
              => /\ resp'.kind = "snapshot"
                 /\ resp'.content.logs = logs
                 /\ resp'.content.network_data = network_data
                 /\ resp'.content.downloaded_files = downloaded_files
                 /\ cache_key \in DOMAIN cache'
                 /\ JsonLoads(cache'[cache_key].value) = resp'.content
       /\ (pc = "b_hit" /\ pc' = "done" /\ resp'.status = 200)
              => resp'.content = JsonLoads(cache[cache_key].value)
       /\ pc # "b_store" => cache' = cache
       /\ (pc = "done" /\ pc' = "done") => resp' = resp]_vars

\* The second request is answered from the cache with a Snapshot that holds
\* a download, a console line and network entries.
C25_Witness ==
    /\ pc = "done"
    /\ served = 1
    /\ launches = 0
    /\ resp.status = 200
    /\ Len(resp.content.downloaded_files) > 0
    /\ Len(resp.content.logs) > 0
    /\ Len(resp.content.network_data) > 0


(***************************************************************************)
(* The entries of logs.                                                    *)
(***************************************************************************)
LogFields == {"console_message", "javascript_error", "warning", "error"}

\* C31: in every state of a session every entry of logs has exactly one of
\* the fields console_message, javascript_error, warning, error, and no
\* other field.
C31_OneFieldPerEntry ==
    \A k \in DOMAIN logs :
        /\ DOMAIN logs[k] \subseteq LogFields
        /\ Cardinality(DOMAIN logs[k]) = 1

\* logs holds a warning of a listener and a line of the console.
C31_Witness ==
    /\ \E k \in DOMAIN logs : DOMAIN logs[k] = {"warning"}
    /\ \E k \in DOMAIN logs : DOMAIN logs[k] = {"console_message"}


(***************************************************************************)
(* The cookie banner pass.                                                 *)
(***************************************************************************)
BannerScripts == {"hide_script", "hide_function"}

\* C32: whatever the two injections of hide_cookie_banners do, the call
\* returns: the handler goes on to the wait for network idle with no
\* response written and logs as they were, and the session can end with its
\* Snapshot.
C32_BannerPassNeverRaises ==
    [][(pc = "b_banner" /\ pc' # pc)
           => (pc' = "b_idlewait" /\ resp' = resp /\ logs' = logs)]_vars

\* Both injections raised and the session has answered with its Snapshot.
C32_Witness ==
    /\ pc = "done"
    /\ resp.kind = "snapshot"
    /\ BannerScripts \subseteq faults

\* C33 as stated: the stages of the pass are tried in order and once one of
\* them has succeeded no later one is attempted.
C33_StopAtFirstSuccess ==
    "hide_script" \in captured => "hide_function" \notin captured \cup faults


(***************************************************************************)
(* Failures to acquire the browser.                                        *)
(***************************************************************************)
LaunchFaults == {"launch", "new_context", "new_page"}

\* C34: when the launch of the browser, the creation of the context or the
\* opening of the page fails, the request ends there with an error response
\* and not with a Snapshot, and the cache stays as it was.
C34_LaunchFailureIsFatal ==
    [][(faults' \cap LaunchFaults # {})
           => (/\ pc' = "done"
               /\ resp'.kind = "error"
               /\ resp'.status = 500
               /\ cache' = cache)]_vars

\* A session of main.py whose context could not be created has answered.
C34_Witness ==
    /\ variant = "main"
    /\ pc = "done"
    /\ "new_context" \in faults
    /\ resp.status = 500


(***************************************************************************)
(* Termination of a session.                                               *)
(***************************************************************************)
\* C35: every request that has been taken up is answered, with the Snapshot
\* or with an error, provided each call of the handler is answered or times
\* out; downloads that never complete and listeners that are still
\* suspended do not hold the handler back.
C35_SessionEnds == (pc \notin {"idle", "done"}) ~> (pc = "done")

\* The request is answered while the task of a download is still waiting.
C35_Witness ==
    /\ pc = "done"
    /\ resp.kind = "snapshot"
    /\ \E d \in DownloadIds :
           <<"download", d>> \in emitted /\ <<"downloaded", d>> \notin emitted


(***************************************************************************)
(* Errors and the cache.                                                   *)
(***************************************************************************)
\* The response reports an error: an error status, or a body that is the
\* error dict.
ErrorResult(r) ==
    \/ r.kind = "error"
    \/ r.kind = "snapshot" /\ "error" \in DOMAIN r.content

\* C36 as stated: a /browse request that ends with an error result leaves
\* the cache as it was.
C36_ErrorsNotCached ==
    [][(pc # "done" /\ pc' = "done" /\ ErrorResult(resp')) => cache' = cache]_vars


(***************************************************************************)
(* The parameters of a cached screenshot.                                  *)
(***************************************************************************)
\* C37 as stated: the images a /screenshot request without live receives
\* were computed for its url and full_page flag, with its thumbnail_size and
\* its quality.
C37_ImagesMatchRequest ==
    (pc = "done" /\ resp.kind = "images" /\ ~req.live) => resp.content = Images(req)


(***************************************************************************)
(* The size of the cache of main.py.                                       *)
(***************************************************************************)
\* The step writes an entry.
Inserted == \E k \in DOMAIN cache' : k \notin DOMAIN cache \/ cache'[k] # cache[k]

\* C38: the cache of main.py never holds more than CACHE_MAX_SIZE entries;
\* a step that inserts into a full cache removes exactly one entry, the one
\* with the oldest timestamp, and a step that inserts below the cap removes
\* none.  Lookups, deletions and insertions are single steps, as they run
\* under the lock.
C38_SizeCapAndOldestEvicted ==
    [][/\ Cardinality(DOMAIN cache') <= CACHE_MAX_SIZE
       /\ Inserted =>
              DOMAIN cache \ DOMAIN cache' =
                  IF Cardinality(DOMAIN cache) >= CACHE_MAX_SIZE
                  THEN {OldestKey(cache)} ELSE {}]_vars

\* The cache is full again after the oldest entry made room.
C38_Witness ==
    /\ Cardinality(DOMAIN cache) = CACHE_MAX_SIZE
    /\ FillerKey(CACHE_MAX_SIZE - 1) \notin DOMAIN cache
    /\ FillerKey(CACHE_MAX_SIZE - 2) \in DOMAIN cache
    /\ \E k \in DOMAIN cache : cache[k].timestamp >= 0


(***************************************************************************)
(* The place of the banner pass and the entry of a navigation timeout.     *)
(***************************************************************************)
NavigationTimeouts == {"goto_timeout", "idle_timeout"}

TimedOutEntries(l) == Cardinality({i \in DOMAIN l : l[i] = NavigationTimedOut})

\* C39: the banner pass starts only from a page.goto that returned, and it
\* starts exactly when cookiebanner is set and the goto neither timed out
\* nor failed; its injections run nowhere else; a timeout of the goto or of
\* the wait for network idle appends the entry "Navigation timed out", and
\* the logs of a session hold it at most once.
C39_BannerAfterGotoAndOneTimeoutEntry ==
    [][/\ (pc' = "b_banner" /\ pc # "b_banner") =>
              (pc = "b_navigating" /\ req.cookiebanner /\ faults' = faults /\ logs' = logs)
       /\ (pc = "b_navigating" /\ pc' # pc) =>
              (pc' = "b_banner" <=>
                  (req.cookiebanner /\ faults' \cap {"goto_timeout", "goto_error"} = {}))
       /\ ((captured' \cup faults') \cap BannerScripts # (captured \cup faults) \cap BannerScripts) =>
              (pc = "b_banner" \/ pc' = "idle" \/ pc = "idle")
       /\ TimedOutEntries(logs') <= 1
       /\ (faults' \cap NavigationTimeouts # faults \cap NavigationTimeouts /\ pc # "idle" /\ pc' # "idle") =>
              logs' = Append(logs, NavigationTimedOut)]_vars

\* A session with the banner pass whose wait for network idle timed out.
C39_Witness ==
    /\ pc = "done"
    /\ resp.kind = "snapshot"
    /\ req.cookiebanner
    /\ (captured \cup faults) \cap BannerScripts # {}
    /\ "idle_timeout" \in faults
    /\ TimedOutEntries(logs) = 1

====
